---------------------------- MODULE Spec2Model ----------------------------
(***************************************************************************)
(* A model of ts-gif: the class-based Writer and its LZW encoder           *)
(* (writerOutputLZWCodeStream), the Reader's block parser, its LZW decoder *)
(* (readerLZWOutputIndexStream) and the frame blit.                        *)
(*                                                                         *)
(* Conventions.  A byte buffer is a sequence of numbers 0..255 addressed   *)
(* with the code's 0-based offsets (RdByte, WriteByte).  The writer's      *)
(* buffer is a large zero-filled buffer of which the model tracks the      *)
(* prefix that has been touched.  JavaScript's undefined / null / NaN are  *)
(* the sentinel NaV (-1): in arithmetic it counts as 0 (ToInt32), every    *)
(* strict comparison with a number is false.                               *)
(***************************************************************************)
EXTENDS Integers, Sequences, FiniteSets, TLC

NaV == 0 - 1

\* null where the code tells it from undefined (a delay or disposal option)
Null == 0 - 9

Num(v) == IF v = NaV THEN 0 ELSE v

Pow2(n) == 2 ^ n

\* a >> n and a << n on non-negative numbers below 2^31
Shr(a, n) == a \div Pow2(n)

Shl(a, n) == a * Pow2(n)

\* JavaScript's 1 << n for any n >= 0: the count is taken mod 32 and the result
\* is an int32, so 1 << 31 is -2^31
OneShl(n) == IF n % 32 = 31 THEN (0 - 2147483647) - 1 ELSE Pow2(n % 32)

RECURSIVE BitAndBits(_, _)
BitAndBits(a, b) ==
  IF a = 0 \/ b = 0 THEN 0
  ELSE (a % 2) * (b % 2) + 2 * BitAndBits(a \div 2, b \div 2)

\* a & b on non-negative numbers; when b is 2^n - 1 this is a mod 2^n
BitAnd(a, b) ==
  IF \E n \in 0..24 : b + 1 = Pow2(n) THEN a % (b + 1) ELSE BitAndBits(a, b)

\* a | b on non-negative numbers
BitOr(a, b) == a + b - BitAnd(a, b)

Zeros(n) == [j \in 1..n |-> 0]

\* buf[i] : undefined past the end
RdByte(buf, i) == IF i >= 0 /\ i < Len(buf) THEN buf[i + 1] ELSE NaV

\* buf[i] = v on the writer's buffer (stores v & 0xFF)
WriteByte(buf, i, v) ==
  IF i < Len(buf) THEN [buf EXCEPT ![i + 1] = v % 256]
  ELSE buf \o Zeros(i - Len(buf)) \o <<v % 256>>

\* buf.slice(0, n) of the zero-filled buffer
Slice(buf, n) ==
  IF n <= Len(buf) THEN SubSeq(buf, 1, n) ELSE buf \o Zeros(n - Len(buf))

(***************************************************************************)
(* LZW encoder: writerOutputLZWCodeStream                                  *)
(***************************************************************************)

RECURSIVE emit_bytes_to_buffer(_, _)
emit_bytes_to_buffer(e, bit_block_size) ==
  IF e.cur_shift >= bit_block_size
  THEN LET e1 == [e EXCEPT !.buf = WriteByte(e.buf, e.p, BitAnd(e.cur, 255)),
                           !.bytes = Append(e.bytes, BitAnd(e.cur, 255)),
                           !.p = e.p + 1,
                           !.cur = Shr(e.cur, 8),
                           !.cur_shift = e.cur_shift - 8]
           e2 == IF e1.p = e1.cur_subblock + 256
                 THEN [e1 EXCEPT !.buf = WriteByte(e1.buf, e1.cur_subblock, 255),
                                 !.cur_subblock = e1.p,
                                 !.p = e1.p + 1]
                 ELSE e1
       IN  emit_bytes_to_buffer(e2, bit_block_size)
  ELSE e

emit_code(e, c) ==
  emit_bytes_to_buffer(
    [e EXCEPT !.cur = BitOr(e.cur, Shl(c, e.cur_shift)),
              !.cur_shift = e.cur_shift + e.cur_code_size,
              !.widths = Append(e.widths, e.cur_code_size),
              !.codes = Append(e.codes, c)], 8)

\* the state after the prologue: the code-size byte, the reserved length byte,
\* the first index loaded and the leading Clear Code emitted
EncInit(buf, p, min_code_size, index_stream) ==
  LET clear_code == Shl(1, min_code_size)
      e0 == [buf |-> WriteByte(buf, p, min_code_size),
             p |-> p + 2,
             cur_subblock |-> p + 1,
             min_code_size |-> min_code_size,
             clear_code |-> clear_code,
             code_mask |-> clear_code - 1,
             eoi_code |-> clear_code + 1,
             next_code |-> clear_code + 2,
             cur_code_size |-> min_code_size + 1,
             cur_shift |-> 0,
             cur |-> 0,
             ib_code |-> BitAnd(Num(RdByte(index_stream, 0)), clear_code - 1),
             code_table |-> << >>,
             index_stream |-> index_stream,
             i |-> 1,
             finished |-> FALSE,
             widths |-> << >>,
             codes |-> << >>,
             bytes |-> << >>]
  IN  emit_code(e0, clear_code)

TableFull == 4096

\* a table-full test one code late, which lets the code 4096 be assigned
TableIsFullLate(next_code) == next_code = TableFull + 1

\* if (next_code === 4096)
TableIsFull(next_code) == next_code = TableFull

\* a growth one insertion late, the timing the round trip rules out
GrowCodeSizeLate(next_code, cur_code_size) ==
  IF next_code > Shl(1, cur_code_size) THEN cur_code_size + 1 ELSE cur_code_size

\* if (next_code >= (1 << cur_code_size)) ++cur_code_size
GrowCodeSize(next_code, cur_code_size) ==
  IF next_code >= Shl(1, cur_code_size) THEN cur_code_size + 1 ELSE cur_code_size

\* one iteration of the loop over index_stream[1..]
EncLoopBody(e) ==
  LET k == BitAnd(e.index_stream[e.i + 1], e.code_mask)
      cur_key == BitOr(Shl(e.ib_code, 8), k)
  IN  IF cur_key \notin DOMAIN e.code_table
      THEN LET e1 == emit_code(e, e.ib_code)
               e2 == IF TableIsFull(e1.next_code)
                     THEN LET e3 == emit_code(e1, e1.clear_code)
                          IN  [e3 EXCEPT !.next_code = e3.eoi_code + 1,
                                         !.cur_code_size = e3.min_code_size + 1,
                                         !.code_table = << >>]
                     ELSE LET cs == GrowCodeSize(e1.next_code, e1.cur_code_size)
                          IN  [e1 EXCEPT !.cur_code_size = cs,
                                         !.code_table = (cur_key :> e1.next_code) @@ e1.code_table,
                                         !.next_code = e1.next_code + 1]
           IN  [e2 EXCEPT !.ib_code = k, !.i = e.i + 1]
      ELSE [e EXCEPT !.ib_code = e.code_table[cur_key], !.i = e.i + 1]

\* an epilogue that closes the sub-block chain without looking whether the
\* current sub-block holds a byte
EncFinishAlwaysClose(e) ==
  LET e1 == emit_bytes_to_buffer(emit_code(emit_code(e, e.ib_code), e.eoi_code), 1)
  IN  [e1 EXCEPT !.buf = WriteByte(WriteByte(e1.buf, e1.cur_subblock,
                                             e1.p - e1.cur_subblock - 1), e1.p, 0),
                 !.p = e1.p + 1,
                 !.finished = TRUE]

\* after the loop: the pending code, End Of Information, the flush and the
\* closing of the sub-block chain
EncFinish(e) ==
  LET e1 == emit_bytes_to_buffer(emit_code(emit_code(e, e.ib_code), e.eoi_code), 1)
  IN  IF e1.cur_subblock + 1 = e1.p
      THEN [e1 EXCEPT !.buf = WriteByte(e1.buf, e1.cur_subblock, 0), !.finished = TRUE]
      ELSE [e1 EXCEPT !.buf = WriteByte(WriteByte(e1.buf, e1.cur_subblock,
                                                  e1.p - e1.cur_subblock - 1), e1.p, 0),
                      !.p = e1.p + 1,
                      !.finished = TRUE]

EncStep(e) == IF e.i < Len(e.index_stream) THEN EncLoopBody(e) ELSE EncFinish(e)

\* the loop to its end; each step is evaluated once and bound to e1
RECURSIVE EncRun(_)
EncRun(e) ==
  IF e.finished THEN e ELSE CHOOSE r \in {EncRun(e1) : e1 \in {EncStep(e)}} : TRUE

\* the whole call: the buffer and the returned cursor are fields buf and p
writerOutputLZWCodeStream(buf, p, min_code_size, index_stream) ==
  EncRun(EncInit(buf, p, min_code_size, index_stream))

(***************************************************************************)
(* LZW decoder: readerLZWOutputIndexStream                                 *)
(***************************************************************************)

\* output[i] = v on a Uint8Array: a store past the end is dropped
WriteOut(out, i, v) ==
  IF i >= 0 /\ i < Len(out) THEN [out EXCEPT ![i + 1] = Num(v) % 256] ELSE out

\* code_table[c] of the Int32Array(4096): 0 until written, undefined past the end
TableAt(t, c) == IF c \in DOMAIN t THEN t[c] ELSE 0

DecInit(code_stream, p, output, output_length) ==
  LET min_code_size == Num(RdByte(code_stream, p))
      clear_code == OneShl(min_code_size)
  IN  [code_stream |-> code_stream,
       p |-> p + 2,
       output |-> output,
       output_length |-> output_length,
       min_code_size |-> min_code_size,
       clear_code |-> clear_code,
       eoi_code |-> clear_code + 1,
       next_code |-> clear_code + 2,
       cur_code_size |-> min_code_size + 1,
       code_mask |-> OneShl(min_code_size + 1) - 1,
       cur_shift |-> 0,
       cur |-> 0,
       op |-> 0,
       subblock_size |-> RdByte(code_stream, p + 1),
       code_table |-> << >>,
       prev_code |-> NaV,
       status |-> "run",
       warning |-> "none",
       ret |-> "none",
       wrote |-> {},
       widths |-> << >>,
       codes |-> << >>]

\* while (cur_shift < 16) { ... }: read up to two bytes from the sub-blocks
RECURSIVE DecFill(_)
DecFill(d) ==
  IF d.cur_shift < 16 /\ d.subblock_size # 0
  THEN LET d1 == [d EXCEPT !.cur = BitOr(d.cur, Shl(Num(RdByte(d.code_stream, d.p)), d.cur_shift)),
                           !.cur_shift = d.cur_shift + 8,
                           !.p = d.p + 1]
       IN  DecFill(IF d.subblock_size = 1
                   THEN [d1 EXCEPT !.subblock_size = RdByte(d1.code_stream, d1.p),
                                   !.p = d1.p + 1]
                   ELSE [d1 EXCEPT !.subblock_size =
                                     IF d.subblock_size = NaV THEN NaV ELSE d.subblock_size - 1])
  ELSE d

\* while (chase > clear_code) { chase = code_table[chase] >> 8; ++chase_length }
\* from a chase that has passed the codes in seen.  The loop writes nothing, so
\* when it comes to a code again it never ends: chase_length is then NaV.
RECURSIVE ChaseFrom(_, _, _, _)
ChaseFrom(t, clear_code, chase, seen) ==
  IF Num(chase) > clear_code
  THEN IF chase \in seen
       THEN [k |-> NaV, chase_length |-> NaV]
       ELSE LET r == ChaseFrom(t, clear_code, Shr(TableAt(t, chase), 8),
                               seen \cup {chase})
            IN  [k |-> r.k,
                 chase_length |-> IF r.chase_length = NaV THEN NaV
                                  ELSE r.chase_length + 1]
  ELSE [k |-> chase, chase_length |-> 0]

ChaseLength(t, clear_code, chase) == ChaseFrom(t, clear_code, chase, {})

\* while (chase_length--) { chase = code_table[chase]; output[--b] = chase & 0xFF; chase >>= 8 }
RECURSIVE ChaseWrite(_, _, _, _, _)
ChaseWrite(t, out, chase, chase_length, b) ==
  IF chase_length = 0 THEN out
  ELSE LET entry == TableAt(t, chase)
       IN  ChaseWrite(t, WriteOut(out, b - 1, BitAnd(entry, 255)), Shr(entry, 8),
                      chase_length - 1, b - 1)

\* the body of the main loop for a code that is neither Clear nor End Of Information
DecEmit(d, code) ==
  LET chase_code == IF code < d.next_code THEN code ELSE d.prev_code
      ch == ChaseLength(d.code_table, d.clear_code, chase_code)
      k == ch.k
      extra == IF chase_code # code THEN 1 ELSE 0
      op_end == d.op + ch.chase_length + extra
  IN  IF ch.chase_length = NaV
      THEN [d EXCEPT !.status = "looping", !.wrote = {}]
      ELSE IF op_end > d.output_length
      THEN [d EXCEPT !.status = "returned", !.warning = "longer", !.ret = "undefined",
                     !.wrote = {}]
      ELSE LET out1 == WriteOut(d.output, d.op, k)
               b == d.op + 1 + ch.chase_length
               out2 == IF extra = 1 THEN WriteOut(out1, b, k) ELSE out1
               out3 == ChaseWrite(d.code_table, out2, chase_code, ch.chase_length, b)
               ins == d.prev_code # NaV /\ d.next_code < TableFull
               nc == IF ins THEN d.next_code + 1 ELSE d.next_code
               grow == ins /\ nc >= d.code_mask + 1 /\ d.cur_code_size < 12
           IN  [d EXCEPT !.output = out3,
                         !.op = b + extra,
                         !.wrote = d.op .. (b + extra - 1),
                         !.code_table = IF ins
                                        THEN (d.next_code :> BitOr(Shl(d.prev_code, 8), Num(k)))
                                             @@ d.code_table
                                        ELSE d.code_table,
                         !.next_code = nc,
                         !.cur_code_size = IF grow THEN d.cur_code_size + 1 ELSE d.cur_code_size,
                         !.code_mask = IF grow THEN BitOr(Shl(d.code_mask, 1), 1) ELSE d.code_mask,
                         !.prev_code = code]

\* after the loop: the length check and return output
DecEnd(d) ==
  [d EXCEPT !.status = "returned",
            !.ret = "output",
            !.warning = IF d.op # d.output_length THEN "shorter" ELSE "none",
            !.wrote = {}]

\* a Clear Code that restarts the table but keeps the code width
DecClearKeepWidth(d) ==
  [d EXCEPT !.next_code = d.eoi_code + 1, !.prev_code = NaV]

\* if (code === clear_code) { ... continue }
DecClear(d) ==
  [d EXCEPT !.next_code = d.eoi_code + 1,
            !.cur_code_size = d.min_code_size + 1,
            !.code_mask = OneShl(d.min_code_size + 1) - 1,
            !.prev_code = NaV]

\* one iteration of while (true); a call whose chase never ends (status
\* "looping") stays where it is
DecStep(d) ==
  LET d1 == DecFill(d)
  IN  IF d.status = "looping"
      THEN d
      ELSE IF d1.cur_shift < d1.cur_code_size
      THEN DecEnd(d1)
      ELSE LET code == BitAnd(d1.cur, d1.code_mask)
               d2 == [d1 EXCEPT !.cur = Shr(d1.cur, d1.cur_code_size),
                                !.cur_shift = d1.cur_shift - d1.cur_code_size,
                                !.widths = Append(d1.widths, d1.cur_code_size),
                                !.codes = Append(d1.codes, code),
                                !.wrote = {}]
           IN  IF code = d2.clear_code
               THEN DecClear(d2)
               ELSE IF code = d2.eoi_code
               THEN DecEnd(d2)
               ELSE DecEmit(d2, code)

RECURSIVE DecRun(_)
DecRun(d) ==
  IF d.status # "run" THEN d
  ELSE CHOOSE r \in {DecRun(d1) : d1 \in {DecStep(d)}} : TRUE

\* the whole call; the result's warning is what was logged
readerLZWOutputIndexStream(code_stream, p, output, output_length) ==
  DecRun(DecInit(code_stream, p, output, output_length))

(***************************************************************************)
(* Writer (class-based).  A writer is the record of the object's fields;   *)
(* the field error holds the message of the exception the current call     *)
(* threw ("none" when it returned).  An absent palette (null / undefined)  *)
(* is NoPalette, an absent number option is NaV.  frame_at and data_at are *)
(* history fields of the model: the offsets at which the last addFrame     *)
(* wrote its first byte and its code stream; options is one too: the       *)
(* options the constructor was called with.                                *)
(***************************************************************************)

NoPalette == <<NaV>>

\* while (numColors >>= 1) ++minCodeSize
RECURSIVE Log2(_)
Log2(n) == IF n \div 2 = 0 THEN 0 ELSE 1 + Log2(n \div 2)

\* minCodeSize < 2 ? 2 : minCodeSize
CodeSizeArg(minCodeSize) == IF minCodeSize < 2 THEN 2 ELSE minCodeSize

\* this.buffer[this.position++] = v
Put(w, v) ==
  [w EXCEPT !.buffer = WriteByte(w.buffer, w.position, v), !.position = w.position + 1]

\* this.buffer[this.position++] = v for each v of bytes in turn
PutAll(w, bytes) ==
  [w EXCEPT !.buffer = SubSeq(Slice(w.buffer, w.position), 1, w.position)
                       \o [j \in 1..Len(bytes) |-> bytes[j] % 256]
                       \o SubSeq(w.buffer, w.position + Len(bytes) + 1, Len(w.buffer)),
            !.position = w.position + Len(bytes)]

Throw(w, msg) == [w EXCEPT !.error = msg]

\* a palette test that looks at the range of the length only
checkNumColorsRange(palette) ==
  IF Len(palette) < 2 \/ Len(palette) > 256 THEN NaV ELSE Len(palette)

\* num_colors < 2 || num_colors > 256 || num_colors & (num_colors - 1)
checkPaletteAndNumColors(palette) ==
  LET num_colors == Len(palette)
  IN  IF num_colors < 2 \/ num_colors > 256
         \/ BitAnd(num_colors, num_colors - 1) # 0
      THEN NaV
      ELSE num_colors

InvalidPaletteMsg == "Invalid code/color length, must be power of 2 and 2 .. 256."

writeHeader(w) == PutAll(w, <<71, 73, 70, 56, 57, 97>>)

writeLogicalScreenDescriptor(w, options) ==
  LET hasGlobal == w.globalPalette # NoPalette
      gp_num_colors == IF hasGlobal THEN checkPaletteAndNumColors(w.globalPalette) ELSE 0
      pow2 == Log2(gp_num_colors)
      gp_num_colors_pow2 == IF hasGlobal THEN pow2 - 1 ELSE 0
      background == IF hasGlobal /\ options.background # NaV THEN options.background ELSE 0
  IN  IF hasGlobal /\ gp_num_colors = NaV
      THEN Throw(w, InvalidPaletteMsg)
      ELSE IF hasGlobal /\ options.background # NaV /\ background >= Pow2(pow2)
      THEN Throw(w, "Background index out of range.")
      ELSE IF hasGlobal /\ options.background # NaV /\ background = 0
      THEN Throw(w, "Background index explicitly passed as 0.")
      ELSE PutAll(w, <<BitAnd(w.width, 255),
                       BitAnd(Shr(w.width, 8), 255),
                       BitAnd(w.height, 255),
                       BitAnd(Shr(w.height, 8), 255),
                       BitOr(IF hasGlobal THEN 128 ELSE 0, gp_num_colors_pow2),
                       background,
                       0>>)

\* the R, G, B bytes of a palette, in order
PaletteBytes(palette) ==
  [j \in 1..(3 * Len(palette)) |->
     LET rgb == palette[(j - 1) \div 3 + 1]
     IN  IF j % 3 = 1 THEN BitAnd(Shr(rgb, 16), 255)
         ELSE IF j % 3 = 2 THEN BitAnd(Shr(rgb, 8), 255)
         ELSE BitAnd(rgb, 255)]

writeGlobalColorTable(w) ==
  IF w.error # "none" THEN w
  ELSE IF w.globalPalette # NoPalette THEN PutAll(w, PaletteBytes(w.globalPalette))
  ELSE w

writeNetscapeLoopingExtension(w, loopCount) ==
  IF w.error # "none" THEN w
  ELSE IF loopCount = NaV THEN w
  ELSE IF loopCount < 0 \/ loopCount > 65535 THEN Throw(w, "Loop count invalid.")
  ELSE PutAll(w, <<33, 255, 11,
                   78, 69, 84, 83, 67, 65, 80, 69, 50, 46, 48,
                   3, 1, BitAnd(loopCount, 255), BitAnd(Shr(loopCount, 8), 255), 0>>)

\* new Writer(buf, width, height, options)
WriterNew(buf, width, height, options) ==
  LET w0 == [buffer |-> buf, width |-> width, height |-> height, position |-> 0,
             ended |-> FALSE, globalPalette |-> options.palette, error |-> "none",
             data_at |-> NaV,
             frame_at |-> NaV,
             options |-> options]
  IN  IF width <= 0 \/ height <= 0 \/ width > 65535 \/ height > 65535
      THEN Throw(w0, "Width/Height invalid.")
      ELSE writeNetscapeLoopingExtension(
             writeGlobalColorTable(
               writeLogicalScreenDescriptor(writeHeader(w0), options)),
             options.loop)

\* an addFrame that leaves the trailer of an ended stream in place, the
\* behaviour the un-ending rules out
UnEndKeepTrailer(w) ==
  IF w.ended THEN [w EXCEPT !.ended = FALSE] ELSE w

\* an un-ending that erases the trailer as it steps back, a store made
\* before the arguments are validated
UnEndErase(w) ==
  IF w.ended
  THEN [w EXCEPT !.buffer = WriteByte(w.buffer, w.position - 1, 0),
                 !.position = w.position - 1, !.ended = FALSE]
  ELSE w

\* if (this.ended) { --this.position; this.ended = false }
UnEnd(w) ==
  IF w.ended THEN [w EXCEPT !.position = w.position - 1, !.ended = FALSE] ELSE w

\* a Graphics Control Extension written for every frame
GraphicsControlAlways(disposal, useTransparency, delay, transparentIndex) ==
  <<33, 249, 4,
    BitOr(Shl(disposal, 2), IF useTransparency THEN 1 ELSE 0),
    BitAnd(delay, 255), BitAnd(Shr(delay, 8), 255),
    transparentIndex, 0>>

\* the Graphics Control Extension, written only when one of the three is set
GraphicsControlBytes(disposal, useTransparency, delay, transparentIndex) ==
  IF disposal # 0 \/ useTransparency \/ delay # 0
  THEN <<33, 249, 4,
         BitOr(Shl(disposal, 2), IF useTransparency THEN 1 ELSE 0),
         BitAnd(delay, 255), BitAnd(Shr(delay, 8), 255),
         transparentIndex, 0>>
  ELSE << >>

ImageDescriptorBytes(x, y, width, height, usingLocalPalette, minCodeSize) ==
  <<44,
    BitAnd(x, 255), BitAnd(Shr(x, 8), 255),
    BitAnd(y, 255), BitAnd(Shr(y, 8), 255),
    BitAnd(width, 255), BitAnd(Shr(width, 8), 255),
    BitAnd(height, 255), BitAnd(Shr(height, 8), 255),
    IF usingLocalPalette THEN BitOr(128, minCodeSize - 1) ELSE 0>>

\* the validations of addFrame with the palette tests made first, an order in
\* which a call with several invalid arguments throws another error
FrameArgumentErrorPaletteFirst(w, x, y, width, height, indexedPixels, options) ==
  LET usingLocalPalette == options.palette # NoPalette
      palette == IF usingLocalPalette THEN options.palette ELSE w.globalPalette
      numColors0 == checkPaletteAndNumColors(palette)
      numColors == Pow2(Log2(numColors0))
      disposal == IF options.disposal \in {NaV, Null} THEN 0 ELSE options.disposal
  IN  IF palette = NoPalette
      THEN "Must supply either a local or global palette."
      ELSE IF numColors0 = NaV
      THEN InvalidPaletteMsg
      ELSE IF x < 0 \/ y < 0 \/ x > 65535 \/ y > 65535
      THEN "x/y invalid."
      ELSE IF width <= 0 \/ height <= 0 \/ width > 65535 \/ height > 65535
      THEN "Width/Height invalid."
      ELSE IF Len(indexedPixels) < width * height
      THEN "Not enough pixels for the frame size."
      ELSE IF disposal < 0 \/ disposal > 3
      THEN "Disposal out of range."
      ELSE IF options.transparent # NaV
              /\ (options.transparent < 0 \/ options.transparent >= numColors)
      THEN "Transparent color index."
      ELSE "none"

\* the validations of addFrame in the order they are made: the message of the
\* first throw reached, "none" when none is
FrameArgumentError(w, x, y, width, height, indexedPixels, options) ==
  LET usingLocalPalette == options.palette # NoPalette
      palette == IF usingLocalPalette THEN options.palette ELSE w.globalPalette
      numColors0 == checkPaletteAndNumColors(palette)
      numColors == Pow2(Log2(numColors0))
      disposal == IF options.disposal \in {NaV, Null} THEN 0 ELSE options.disposal
  IN  IF x < 0 \/ y < 0 \/ x > 65535 \/ y > 65535
      THEN "x/y invalid."
      ELSE IF width <= 0 \/ height <= 0 \/ width > 65535 \/ height > 65535
      THEN "Width/Height invalid."
      ELSE IF Len(indexedPixels) < width * height
      THEN "Not enough pixels for the frame size."
      ELSE IF palette = NoPalette
      THEN "Must supply either a local or global palette."
      ELSE IF numColors0 = NaV
      THEN InvalidPaletteMsg
      ELSE IF disposal < 0 \/ disposal > 3
      THEN "Disposal out of range."
      ELSE IF options.transparent # NaV
              /\ (options.transparent < 0 \/ options.transparent >= numColors)
      THEN "Transparent color index."
      ELSE "none"

\* writer.addFrame(x, y, width, height, indexedPixels, options); the returned
\* record is the writer after the call, ret the value returned
addFrame(w_in, x, y, width, height, indexedPixels, options) ==
  LET w == UnEnd([w_in EXCEPT !.error = "none"])
      error == FrameArgumentError(w, x, y, width, height, indexedPixels, options)
      usingLocalPalette == options.palette # NoPalette
      palette == IF usingLocalPalette THEN options.palette ELSE w.globalPalette
      minCodeSize == Log2(checkPaletteAndNumColors(palette))
      delay == IF options.delay \in {NaV, Null} THEN 0 ELSE options.delay
      disposal == IF options.disposal \in {NaV, Null} THEN 0 ELSE options.disposal
      useTransparency == options.transparent # NaV
      transparentIndex == IF useTransparency THEN options.transparent ELSE 0
  IN  IF error # "none"
      THEN Throw(w, error)
      ELSE LET w1 == PutAll(w, GraphicsControlBytes(disposal, useTransparency, delay,
                                                    transparentIndex))
               w2 == PutAll(w1, ImageDescriptorBytes(x, y, width, height,
                                                     usingLocalPalette, minCodeSize))
               w3 == IF usingLocalPalette THEN PutAll(w2, PaletteBytes(palette)) ELSE w2
               e == writerOutputLZWCodeStream(w3.buffer, w3.position,
                                              CodeSizeArg(minCodeSize), indexedPixels)
           IN  [w3 EXCEPT !.buffer = e.buf, !.position = e.p, !.data_at = w3.position,
                          !.frame_at = w.position]

\* an end() that appends a trailer on every call, the behaviour idempotence
\* rules out
endAlways(w_in) ==
  [Put([w_in EXCEPT !.error = "none"], 59) EXCEPT !.ended = TRUE]

\* writer.end(): the returned value is the position of the result
end(w_in) ==
  LET w == [w_in EXCEPT !.error = "none"]
  IN  IF ~w.ended THEN [Put(w, 59) EXCEPT !.ended = TRUE] ELSE w

(***************************************************************************)
(* GifWriter: the closure-style writer.  A record holds the variables the  *)
(* closure captures (buf, p, ended, global_palette); error holds the       *)
(* message of the exception the last call threw.                           *)
(***************************************************************************)

\* buf[p++] = v for each v of bytes in turn
GifPutAll(g, bytes) ==
  LET w == PutAll([buffer |-> g.buf, position |-> g.p], bytes)
  IN  [g EXCEPT !.buf = w.buffer, !.p = w.position]

\* the inner function of GifWriter; NaV when it throws
check_palette_and_num_colors(palette) ==
  LET num_colors == Len(palette)
  IN  IF num_colors < 2 \/ num_colors > 256
         \/ BitAnd(num_colors, num_colors - 1) # 0
      THEN NaV
      ELSE num_colors

\* the code stream routine of writer.ts, statement for statement that of the
\* class-based writer
GifWriterOutputLZWCodeStream(buf, p, min_code_size, index_stream) ==
  writerOutputLZWCodeStream(buf, p, min_code_size, index_stream)

\* GifWriter(buf, width, height, options) called with new
GifWriter(buf, width, height, options) ==
  LET loop_count == options.loop
      global_palette == options.palette
      g0 == [buf |-> buf, p |-> 0, ended |-> FALSE, global_palette |-> global_palette,
             error |-> "none"]
      g1 == GifPutAll(g0, <<71, 73, 70, 56, 57, 97>>)
      has_global == global_palette # NoPalette
      gp_num_colors0 == IF has_global THEN check_palette_and_num_colors(global_palette)
                        ELSE 0
      pow2 == Log2(gp_num_colors0)
      gp_num_colors == Pow2(pow2)
      gp_num_colors_pow2 == IF has_global THEN pow2 - 1 ELSE 0
      has_background == has_global /\ options.background # NaV
      background == IF has_background THEN options.background ELSE 0
      g2 == GifPutAll(g1, <<BitAnd(width, 255), BitAnd(Shr(width, 8), 255),
                            BitAnd(height, 255), BitAnd(Shr(height, 8), 255),
                            BitOr(IF has_global THEN 128 ELSE 0, gp_num_colors_pow2),
                            background, 0>>)
      g3 == IF has_global THEN GifPutAll(g2, PaletteBytes(global_palette)) ELSE g2
  IN  IF width <= 0 \/ height <= 0 \/ width > 65535 \/ height > 65535
      THEN [g0 EXCEPT !.error = "Width/Height invalid."]
      ELSE IF has_global /\ gp_num_colors0 = NaV
      THEN [g1 EXCEPT !.error = InvalidPaletteMsg]
      ELSE IF has_background /\ background >= gp_num_colors
      THEN [g1 EXCEPT !.error = "Background index out of range."]
      ELSE IF has_background /\ background = 0
      THEN [g1 EXCEPT !.error = "Background index explicitly passed as 0."]
      ELSE IF loop_count = NaV THEN g3
      ELSE IF loop_count < 0 \/ loop_count > 65535
      THEN [g3 EXCEPT !.error = "Loop count invalid."]
      ELSE GifPutAll(g3, <<33, 255, 11,
                           78, 69, 84, 83, 67, 65, 80, 69, 50, 46, 48,
                           3, 1, BitAnd(loop_count, 255), BitAnd(Shr(loop_count, 8), 255),
                           0>>)

\* this.addFrame(x, y, w, h, indexed_pixels, opts).  delay and disposal fall
\* back to 0 on undefined only: a null is kept, counts as 0 in comparisons and
\* bit operations and is !== 0
GifAddFrame(g_in, x, y, w, h, indexed_pixels, opts) ==
  LET g == IF g_in.ended
           THEN [g_in EXCEPT !.p = g_in.p - 1, !.ended = FALSE, !.error = "none"]
           ELSE [g_in EXCEPT !.error = "none"]
      num(v) == IF v = Null THEN 0 ELSE v
      using_local_palette == opts.palette # NoPalette
      palette == IF using_local_palette THEN opts.palette ELSE g.global_palette
      num_colors0 == check_palette_and_num_colors(palette)
      min_code_size == Log2(num_colors0)
      num_colors == Pow2(min_code_size)
      delay == IF opts.delay = NaV THEN 0 ELSE opts.delay
      disposal == IF opts.disposal = NaV THEN 0 ELSE opts.disposal
      use_transparency == opts.transparent # NaV
      transparent_index == IF use_transparency THEN opts.transparent ELSE 0
      g1 == IF disposal # 0 \/ use_transparency \/ delay # 0
            THEN GifPutAll(g, <<33, 249, 4,
                                BitOr(Shl(num(disposal), 2),
                                      IF use_transparency THEN 1 ELSE 0),
                                BitAnd(num(delay), 255), BitAnd(Shr(num(delay), 8), 255),
                                transparent_index, 0>>)
            ELSE g
      g2 == GifPutAll(g1, <<44,
                            BitAnd(x, 255), BitAnd(Shr(x, 8), 255),
                            BitAnd(y, 255), BitAnd(Shr(y, 8), 255),
                            BitAnd(w, 255), BitAnd(Shr(w, 8), 255),
                            BitAnd(h, 255), BitAnd(Shr(h, 8), 255),
                            IF using_local_palette THEN BitOr(128, min_code_size - 1)
                            ELSE 0>>)
      g3 == IF using_local_palette THEN GifPutAll(g2, PaletteBytes(palette)) ELSE g2
      e == GifWriterOutputLZWCodeStream(g3.buf, g3.p,
                                        IF min_code_size < 2 THEN 2 ELSE min_code_size,
                                        indexed_pixels)
  IN  IF x < 0 \/ y < 0 \/ x > 65535 \/ y > 65535
      THEN [g EXCEPT !.error = "x/y invalid."]
      ELSE IF w <= 0 \/ h <= 0 \/ w > 65535 \/ h > 65535
      THEN [g EXCEPT !.error = "Width/Height invalid."]
      ELSE IF Len(indexed_pixels) < w * h
      THEN [g EXCEPT !.error = "Not enough pixels for the frame size."]
      ELSE IF palette = NoPalette
      THEN [g EXCEPT !.error = "Must supply either a local or global palette."]
      ELSE IF num_colors0 = NaV
      THEN [g EXCEPT !.error = InvalidPaletteMsg]
      ELSE IF num(disposal) < 0 \/ num(disposal) > 3
      THEN [g EXCEPT !.error = "Disposal out of range."]
      ELSE IF use_transparency /\ (transparent_index < 0 \/ transparent_index >= num_colors)
      THEN [g EXCEPT !.error = "Transparent color index."]
      ELSE [g3 EXCEPT !.buf = e.buf, !.p = e.p]

\* this.end()
GifEnd(g_in) ==
  LET g == [g_in EXCEPT !.error = "none"]
  IN  IF ~g.ended THEN [GifPutAll(g, <<59>>) EXCEPT !.ended = TRUE] ELSE g

(***************************************************************************)
(* Reader: the constructor's block parser.  A reader is the record of the  *)
(* object's fields; error holds the message of the exception the           *)
(* constructor threw.  null is NaV.                                        *)
(***************************************************************************)

\* buf[p] | buf[p + 1] << 8
RdU16(buf, p) == BitOr(Num(RdByte(buf, p)), Shl(Num(RdByte(buf, p + 1)), 8))

\* a scan that takes a length read past the end for the terminator
RECURSIVE SkipSubBlocksUnchecked(_, _)
SkipSubBlocksUnchecked(buf, p) ==
  LET block_size == RdByte(buf, p)
  IN  IF block_size = NaV \/ block_size = 0 THEN p + 1
      ELSE SkipSubBlocksUnchecked(buf, p + 1 + block_size)

\* while (true) { block_size = buf[p++]; ... p += block_size }: the offset just
\* past the zero-length sub-block, or NaV when a length is read past the end
RECURSIVE SkipSubBlocks(_, _)
SkipSubBlocks(buf, p) ==
  LET block_size == RdByte(buf, p)
  IN  IF block_size = NaV THEN NaV
      ELSE IF block_size = 0 THEN p + 1
      ELSE SkipSubBlocks(buf, p + 1 + block_size)

\* a header test that does not look at the version digit
HeaderOkAnyVersion(buf) ==
  /\ RdByte(buf, 0) = 71
  /\ RdByte(buf, 1) = 73
  /\ RdByte(buf, 2) = 70
  /\ RdByte(buf, 3) = 56
  /\ RdByte(buf, 5) = 97

\* the header test; the operands are evaluated left to right
HeaderOk(buf) ==
  /\ RdByte(buf, 0) = 71
  /\ RdByte(buf, 1) = 73
  /\ RdByte(buf, 2) = 70
  /\ RdByte(buf, 3) = 56
  /\ BitAnd(Num(RdByte(buf, 4)) + 1, 253) = 56
  /\ RdByte(buf, 5) = 97

\* the test of the Application Extension branch, p at the block-size byte
NetscapeTest(buf, p) ==
  \/ RdByte(buf, p) # 11
  \/ /\ RdByte(buf, p + 1) = 78 /\ RdByte(buf, p + 2) = 69 /\ RdByte(buf, p + 3) = 84
     /\ RdByte(buf, p + 4) = 83 /\ RdByte(buf, p + 5) = 67 /\ RdByte(buf, p + 6) = 65
     /\ RdByte(buf, p + 7) = 80 /\ RdByte(buf, p + 8) = 69 /\ RdByte(buf, p + 9) = 50
     /\ RdByte(buf, p + 10) = 46 /\ RdByte(buf, p + 11) = 48
     /\ RdByte(buf, p + 12) = 3 /\ RdByte(buf, p + 13) = 1 /\ RdByte(buf, p + 16) = 0

\* case 0xFF, p just past the label
ApplicationExtension(buf, st) ==
  IF NetscapeTest(buf, st.p)
  THEN [st EXCEPT !.loop_count = RdU16(buf, st.p + 14), !.p = st.p + 17]
  ELSE LET q == SkipSubBlocks(buf, st.p + 12)
       IN  IF q = NaV THEN [st EXCEPT !.error = "Invalid block size"]
           ELSE [st EXCEPT !.p = q]

\* case 0xF9, p just past the label
GraphicsControlExtension(buf, st) ==
  IF RdByte(buf, st.p) # 4 \/ RdByte(buf, st.p + 5) # 0
  THEN [st EXCEPT !.error = "Invalid graphics extension block."]
  ELSE LET pf1 == Num(RdByte(buf, st.p + 1))
       IN  [st EXCEPT !.delay = RdU16(buf, st.p + 2),
                      !.transparent_index =
                        IF BitAnd(pf1, 1) = 0 THEN NaV ELSE RdByte(buf, st.p + 4),
                      !.disposal = BitAnd(Shr(pf1, 2), 7),
                      !.gce_seen = TRUE,
                      !.p = st.p + 6]

\* case 0x01 / 0xFE, p just past the label
CommentExtension(buf, st) ==
  LET q == SkipSubBlocks(buf, st.p)
  IN  IF q = NaV THEN [st EXCEPT !.error = "Invalid block size"]
      ELSE [st EXCEPT !.p = q]

\* case 0x2C, p just past the tag.  gce is a history field of the model: whether
\* a Graphics Control Extension was read since the previous Image Descriptor.
ImageDescriptor(buf, st) ==
  LET p0 == st.p
      pf2 == Num(RdByte(buf, p0 + 8))
      local_palette_flag == Shr(pf2, 7)
      num_local_colors == Shl(1, BitAnd(pf2, 7) + 1)
      data_offset == p0 + 9
      p1 == IF local_palette_flag # 0 THEN p0 + 9 + num_local_colors * 3 ELSE p0 + 9
      q == SkipSubBlocks(buf, p1 + 1)
  IN  IF q = NaV THEN [st EXCEPT !.error = "Invalid block size"]
      ELSE [st EXCEPT
              !.p = q,
              !.gce_seen = FALSE,
              !.frames = Append(st.frames,
                [x |-> RdU16(buf, p0),
                 y |-> RdU16(buf, p0 + 2),
                 width |-> RdU16(buf, p0 + 4),
                 height |-> RdU16(buf, p0 + 6),
                 has_local_palette |-> local_palette_flag # 0,
                 palette_offset |-> IF local_palette_flag # 0 THEN p0 + 9
                                    ELSE st.global_palette_offset,
                 palette_size |-> IF local_palette_flag # 0 THEN num_local_colors
                                  ELSE st.global_palette_size,
                 data_offset |-> data_offset,
                 data_length |-> q - data_offset,
                 transparent_index |-> st.transparent_index,
                 interlaced |-> BitAnd(Shr(pf2, 6), 1) # 0,
                 delay |-> st.delay,
                 disposal |-> st.disposal,
                 gce |-> st.gce_seen])]

\* one turn of while (no_eof && p < buf.length) { switch (buf[p++]) ... }
ParseBlock(buf, st) ==
  LET tag == RdByte(buf, st.p)
      label == RdByte(buf, st.p + 1)
  IN  IF tag = 33
      THEN IF label = 255 THEN ApplicationExtension(buf, [st EXCEPT !.p = st.p + 2])
           ELSE IF label = 249 THEN GraphicsControlExtension(buf, [st EXCEPT !.p = st.p + 2])
           ELSE IF label = 1 \/ label = 254 THEN CommentExtension(buf, [st EXCEPT !.p = st.p + 2])
           ELSE [st EXCEPT !.error = "Unknown graphic control label"]
      ELSE IF tag = 44 THEN ImageDescriptor(buf, [st EXCEPT !.p = st.p + 1])
      ELSE IF tag = 59 THEN [st EXCEPT !.p = st.p + 1, !.no_eof = FALSE]
      ELSE [st EXCEPT !.error = "Unknown gif block"]

NoFrames == << >>

\* the constructor up to the block loop: the header test, the Logical Screen
\* Descriptor (two 16-bit sizes, the packed fields and ONE further byte, so the
\* block loop and the global palette start at offset 12) and the locals
ParseInit(buf) ==
  LET pf0 == Num(RdByte(buf, 10))
      global_palette_flag == Shr(pf0, 7)
      num_global_colors == Shl(1, BitAnd(pf0, 7) + 1)
      p == 12
  IN  [p |-> IF global_palette_flag # 0 THEN p + num_global_colors * 3 ELSE p,
       global_palette_offset |-> IF global_palette_flag # 0 THEN p ELSE NaV,
       global_palette_size |-> IF global_palette_flag # 0 THEN num_global_colors ELSE NaV,
       no_eof |-> TRUE,
       delay |-> 0,
       transparent_index |-> NaV,
       disposal |-> 0,
       gce_seen |-> FALSE,
       loop_count |-> NaV,
       frames |-> NoFrames,
       error |-> IF HeaderOk(buf) THEN "none" ELSE "Invalid GIF 87a/89a header."]

\* the loop condition of the constructor
ParseRunning(buf, st) == st.error = "none" /\ st.no_eof /\ st.p < Len(buf)

RECURSIVE ParseBlocks(_, _)
ParseBlocks(buf, st) ==
  IF ParseRunning(buf, st)
  THEN CHOOSE r \in {ParseBlocks(buf, st1) : st1 \in {ParseBlock(buf, st)}} : TRUE
  ELSE st

\* the object the constructor leaves (no object when error is not "none")
ReaderOf(buf, st) ==
  [buffer |-> buf,
   width |-> RdU16(buf, 6),
   height |-> RdU16(buf, 8),
   loop_count |-> st.loop_count,
   frames |-> IF st.error = "none" THEN st.frames ELSE NoFrames,
   error |-> st.error]

\* new Reader(buf)
ReaderNew(buf) == ReaderOf(buf, ParseBlocks(buf, ParseInit(buf)))

numFrames(r) == Len(r.frames)

getLoopCount(r) == r.loop_count

\* frameInfo(frame_num), 0-based; the caller keeps frame_num in range
frameInfo(r, frame_num) == r.frames[frame_num + 1]

(***************************************************************************)
(* Frame blit: decodeAndBlitFrameBGRA / decodeAndBlitFrameRGBA (order).    *)
(* rows and touched are history fields of the model: the canvas row,       *)
(* relative to frame.y, at which each row of the index stream started, and *)
(* the offsets of pixels that were stored to.                              *)
(***************************************************************************)

\* a store that writes the alpha value whatever it is given
WritePixelAlpha(pixels, i, v) == WriteOut(pixels, i, 255)

\* pixels[i] = v on the caller's Uint8Array
WritePixel(pixels, i, v) == WriteOut(pixels, i, v)

\* the function from its first statement after the decoder call up to the loop
BlitInit(r, frame, index_stream, pixels, order) ==
  LET framewidth == frame.width
      framestride == r.width - framewidth
      opbeg == ((frame.y * r.width) + frame.x) * 4
  IN  [order |-> order,
       buffer |-> r.buffer,
       width |-> r.width,
       frame |-> frame,
       index_stream |-> index_stream,
       pixels |-> pixels,
       palette_offset |-> frame.palette_offset,
       trans |-> IF frame.transparent_index = NaV THEN 256 ELSE frame.transparent_index,
       framewidth |-> framewidth,
       framestride |-> framestride,
       xleft |-> framewidth,
       opbeg |-> opbeg,
       opend |-> ((frame.y + frame.height) * r.width + frame.x) * 4,
       op |-> opbeg,
       scanstride |-> IF frame.interlaced THEN framestride * 4 + r.width * 4 * 7
                      ELSE framestride * 4,
       interlaceskip |-> 8,
       i |-> 0,
       error |-> IF order = "RGBA" /\ frame.palette_offset = NaV
                 THEN "No palette found for frame" ELSE "none",
       rows |-> << >>,
       touched |-> {}]

\* if (xleft === 0) { ... }: the start of a new scan line
NewScanLine(b) ==
  IF b.xleft = 0
  THEN LET op1 == b.op + b.scanstride
       IN  IF op1 >= b.opend
           THEN [b EXCEPT !.xleft = b.framewidth,
                          !.scanstride = b.framestride * 4
                                         + b.width * 4 * (b.interlaceskip - 1),
                          !.op = b.opbeg + (b.framewidth + b.framestride)
                                           * Shl(b.interlaceskip, 1),
                          !.interlaceskip = Shr(b.interlaceskip, 1)]
           ELSE [b EXCEPT !.xleft = b.framewidth, !.op = op1]
  ELSE b

\* the canvas row, relative to the frame's, of output offset op
RowOf(b, op) == (op \div 4) \div b.width - b.frame.y

\* one iteration of the loop over index_stream
BlitStep(b) ==
  LET index == b.index_stream[b.i + 1]
      b1 == NewScanLine(b)
      b2 == IF b1.xleft = b1.framewidth
            THEN [b1 EXCEPT !.rows = Append(b1.rows, RowOf(b1, b1.op))]
            ELSE b1
      at == b2.palette_offset + index * 3
      red == Num(RdByte(b2.buffer, at))
      green == Num(RdByte(b2.buffer, at + 1))
      blue == Num(RdByte(b2.buffer, at + 2))
      c0 == IF b2.order = "BGRA" THEN blue ELSE red
      c2 == IF b2.order = "BGRA" THEN red ELSE blue
  IN  IF index = b2.trans
      THEN [b2 EXCEPT !.op = b2.op + 4, !.xleft = b2.xleft - 1, !.i = b2.i + 1]
      ELSE IF b2.palette_offset = NaV
      THEN [b2 EXCEPT !.error = "No palette found for frame"]
      ELSE [b2 EXCEPT !.pixels = WritePixel(WritePixel(WritePixel(WritePixel(
                                   b2.pixels, b2.op, c0), b2.op + 1, green),
                                   b2.op + 2, c2), b2.op + 3, 255),
                      !.touched = b2.touched \cup {b2.op},
                      !.op = b2.op + 4,
                      !.xleft = b2.xleft - 1,
                      !.i = b2.i + 1]

BlitRunning(b) == b.error = "none" /\ b.i < Len(b.index_stream)

(***************************************************************************)
(* State                                                                   *)
(***************************************************************************)

VARIABLES
  writer,     \* the Writer object (Idle before construction)
  calls,      \* history: the successful addFrame calls, in order
  call,       \* history: the last call made, what it returned, the writer before it
  input,      \* the buffer given to the Reader constructor
  shift,      \* history: how many bytes input's blocks lie below the writer's
  parse,      \* the locals of the running Reader constructor (Idle before)
  reader,     \* the Reader object the constructor left (Idle before)
  enc,        \* the running writerOutputLZWCodeStream call (or Idle)
  dec,        \* the running readerLZWOutputIndexStream call (or Idle)
  lzw_phase,  \* "encode", "encoded", "decode", "decoded"
  blit        \* the running decodeAndBlitFrame call after its decoder call (or Idle)

gifVars == <<writer, calls, call>>

parseVars == <<input, shift, parse, reader>>

lzwVars == <<enc, dec, lzw_phase>>

vars == <<gifVars, parseVars, lzwVars, blit>>

Idle == [status |-> "idle"]

(***************************************************************************)
(* The codec on its own: one call of the encoder on a fresh buffer, then   *)
(* one call of the decoder on the bytes it wrote.                          *)
(***************************************************************************)

MaxIndexLen == 5

PaletteSizes == {2, 4, 8, 16, 32, 64, 128, 256}

\* the index values tried for a palette of the given size
IndexValues(size) == {0, 1, size - 1}

IndexStreams(size) ==
  UNION {[1..n -> IndexValues(size)] : n \in 1..MaxIndexLen}

InitLZW ==
  /\ \E size \in PaletteSizes : \E idx \in IndexStreams(size) :
       enc = EncInit(<< >>, 0, CodeSizeArg(Log2(size)), idx)
  /\ dec = Idle
  /\ lzw_phase = "encode"
  /\ writer = Idle /\ calls = << >> /\ call = Idle
  /\ input = << >> /\ shift = 0 /\ parse = Idle /\ reader = Idle
  /\ blit = Idle

EncodeStep ==
  /\ lzw_phase = "encode"
  /\ enc' = EncStep(enc)
  /\ lzw_phase' = IF enc'.finished THEN "encoded" ELSE "encode"
  /\ UNCHANGED <<dec, gifVars, parseVars, blit>>

\* the decoder is called on the written bytes with an output array of
\* output_length entries, as decodeAndBlitFrame does, or of one entry more
StartDecode ==
  /\ lzw_phase = "encoded"
  /\ \E output_length \in (Len(enc.index_stream) - 2)..(Len(enc.index_stream) + 1) :
       /\ output_length >= 1
       /\ \E spare \in {0, 1} :
            dec' = DecInit(Slice(enc.buf, enc.p), 0, Zeros(output_length + spare),
                           output_length)
  /\ lzw_phase' = "decode"
  /\ UNCHANGED <<enc, gifVars, parseVars, blit>>

DecodeStep ==
  /\ lzw_phase = "decode"
  /\ dec' = DecStep(dec)
  /\ lzw_phase' = IF dec'.status = "returned" THEN "decoded" ELSE "decode"
  /\ UNCHANGED <<enc, gifVars, parseVars, blit>>

NextLZW == EncodeStep \/ StartDecode \/ DecodeStep

SpecLZW == InitLZW /\ [][NextLZW]_vars


(***************************************************************************)
(* A Writer session and a Reader constructed on its output                 *)
(***************************************************************************)

MaxFrames == 2

Pal2 == <<16711680, 255>>

Pal4 == <<0, 16711680, 65280, 255>>

\* the constructor calls tried
CtorInputs ==
  {[width |-> 2, height |-> 2, palette |-> pal, loop |-> loop, background |-> NaV] :
     pal \in {NoPalette, Pal4}, loop \in {NaV, 1}}
  \cup {[width |-> 300, height |-> 1, palette |-> Pal2, loop |-> 65535, background |-> 1]}

\* the addFrame calls tried; without a local palette and without a global one
\* the call throws
FrameInputs ==
  {[x |-> g.x, y |-> g.y, width |-> g.width, height |-> g.height, pixels |-> g.pixels,
    palette |-> pal, delay |-> o.delay, disposal |-> o.disposal,
    transparent |-> o.transparent] :
     g \in {[x |-> 0, y |-> 0, width |-> 2, height |-> 2, pixels |-> <<0, 1, 1, 0>>],
            [x |-> 258, y |-> 65535, width |-> 1, height |-> 3, pixels |-> <<1, 1, 0>>]},
     pal \in {NoPalette, Pal2},
     o \in {[delay |-> NaV, disposal |-> NaV, transparent |-> NaV],
            [delay |-> 10, disposal |-> NaV, transparent |-> NaV],
            [delay |-> 65535, disposal |-> 3, transparent |-> 1]}}

FrameOptions(f) ==
  [palette |-> f.palette, delay |-> f.delay, disposal |-> f.disposal,
   transparent |-> f.transparent]

AddFrameOf(w, f) ==
  addFrame(w, f.x, f.y, f.width, f.height, f.pixels, FrameOptions(f))

\* the history entry of a successful addFrame: its arguments, the offset of its
\* first byte, of its code stream and of the byte after it
CallEntry(w_before, w_after, f) ==
  [args |-> f,
   start |-> w_after.frame_at,
   data_at |-> w_after.data_at,
   stop |-> w_after.position]

\* the writer can be called: it was constructed without an exception
Usable == writer # Idle /\ ~(call.op = "new" /\ writer.error # "none")

Init ==
  /\ writer = Idle /\ calls = << >> /\ call = Idle
  /\ input = << >> /\ shift = 0 /\ parse = Idle /\ reader = Idle
  /\ enc = Idle /\ dec = Idle /\ lzw_phase = "idle"
  /\ blit = Idle

Construct ==
  /\ writer = Idle
  /\ \E c \in CtorInputs :
       writer' = WriterNew(<< >>, c.width, c.height,
                           [palette |-> c.palette, loop |-> c.loop,
                            background |-> c.background])
  /\ call' = [op |-> "new", ret |-> NaV, before |-> writer]
  /\ UNCHANGED <<calls, parseVars, lzwVars, blit>>

AddFrame ==
  /\ Usable
  /\ parse = Idle
  /\ Len(calls) < MaxFrames
  /\ \E f \in FrameInputs :
       /\ writer' = AddFrameOf(writer, f)
       /\ calls' = IF writer'.error = "none"
                   THEN Append(calls, CallEntry(writer, writer', f))
                   ELSE calls
  /\ call' = [op |-> "addFrame", ret |-> IF writer'.error = "none" THEN writer'.position ELSE NaV,
              before |-> writer]
  /\ UNCHANGED <<parseVars, lzwVars, blit>>

End ==
  /\ Usable
  /\ parse = Idle
  /\ writer' = end(writer)
  /\ call' = [op |-> "end", ret |-> writer'.position, before |-> writer]
  /\ UNCHANGED <<calls, parseVars, lzwVars, blit>>

\* buf without the byte at offset i
DropByte(buf, i) == SubSeq(buf, 1, i) \o SubSeq(buf, i + 2, Len(buf))

\* new Reader(buf.slice(0, gf.end())) is called on the finished output (n = 0).
\* The constructor starts its block loop at offset 12 (+ palette), one byte
\* before the writer's first block, so it is also called on the same stream in
\* the layout whose Logical Screen Descriptor is one byte shorter (n = 1), the
\* layout whose blocks it reads aligned.
StartReader ==
  /\ Usable
  /\ writer.ended
  /\ call.op = "end"
  /\ parse = Idle
  /\ \E n \in {0, 1} :
       /\ shift' = n
       /\ input' = IF n = 1 THEN DropByte(Slice(writer.buffer, writer.position), 12)
                   ELSE Slice(writer.buffer, writer.position)
  /\ parse' = ParseInit(input')
  /\ UNCHANGED <<gifVars, reader, lzwVars, blit>>

\* one turn of the constructor's block loop
ParseStep ==
  /\ parse # Idle
  /\ ParseRunning(input, parse)
  /\ parse' = ParseBlock(input, parse)
  /\ UNCHANGED <<gifVars, input, shift, reader, lzwVars, blit>>

\* the constructor returns (or throws)
ParseReturn ==
  /\ parse # Idle
  /\ ~ParseRunning(input, parse)
  /\ reader = Idle
  /\ reader' = ReaderOf(input, parse)
  /\ UNCHANGED <<gifVars, input, shift, parse, lzwVars, blit>>

Next == Construct \/ AddFrame \/ End \/ StartReader \/ ParseStep \/ ParseReturn

Spec == Init /\ [][Next]_vars

(***************************************************************************)
(* decodeAndBlitFrame on a one-frame stream: the decoder call, one code    *)
(* per step, then the pixel loop, one index per step.  The stream is a     *)
(* Writer's, in the layout the Reader constructor reads aligned, with the  *)
(* interlace flag of its Image Descriptor set or not.                      *)
(***************************************************************************)

MaxBlitHeight == 8

\* buf with bit 6 of the byte at offset i set
SetInterlaceFlag(buf, i) == [buf EXCEPT ![i + 1] = BitOr(buf[i + 1], 64)]

\* the rows of a frame: row r holds the index r mod 4
BlitPixels(width, height) == [j \in 1..(width * height) |-> ((j - 1) \div width) % 4]

\* the caller's canvas-sized pixel buffer, every byte 9
Canvas(width, height) == [j \in 1..(width * height * 4) |-> 9]

\* new Writer(buf, 3, MaxBlitHeight + 2, {palette: Pal4})
BlitConstruct ==
  /\ writer = Idle
  /\ writer' = WriterNew(<< >>, 3, MaxBlitHeight + 2,
                         [palette |-> Pal4, loop |-> NaV, background |-> NaV])
  /\ call' = [op |-> "new", ret |-> NaV, before |-> writer]
  /\ UNCHANGED <<calls, parseVars, lzwVars, blit>>

\* the frames blitted: 1 or 2 wide, up to MaxBlitHeight high, at (0, 0) or (1, 1),
\* with index 0 transparent or not
BlitFrameInputs ==
  {[x |-> at, y |-> at, width |-> fw, height |-> fh, pixels |-> BlitPixels(fw, fh),
    palette |-> NoPalette, delay |-> NaV, disposal |-> NaV, transparent |-> tr] :
     fw \in {1, 2}, fh \in 1..MaxBlitHeight, at \in {0, 1}, tr \in {NaV, 0}}

\* writer.addFrame(...) of the one frame
BlitAddFrame ==
  /\ Usable
  /\ call.op = "new"
  /\ \E f \in BlitFrameInputs :
       /\ writer' = AddFrameOf(writer, f)
       /\ calls' = Append(calls, CallEntry(writer, writer', f))
  /\ call' = [op |-> "addFrame", ret |-> writer'.position, before |-> writer]
  /\ UNCHANGED <<parseVars, lzwVars, blit>>

\* new Reader(buf) on the finished stream, laid out as the constructor reads
\* it, with the interlace flag of the Image Descriptor set or not
BlitStartReader ==
  /\ Usable
  /\ writer.ended
  /\ Len(calls) = 1
  /\ parse = Idle
  /\ shift' = 1
  /\ \E il \in BOOLEAN :
       input' = IF il
                THEN SetInterlaceFlag(DropByte(Slice(writer.buffer, writer.position), 12),
                                      calls[1].data_at - 2)
                ELSE DropByte(Slice(writer.buffer, writer.position), 12)
  /\ parse' = ParseInit(input')
  /\ UNCHANGED <<gifVars, reader, lzwVars, blit>>

\* decodeAndBlitFrameBGRA(0, pixels) or decodeAndBlitFrameRGBA(0, pixels) is called
BlitCall ==
  /\ dec = Idle
  /\ reader # Idle
  /\ reader.error = "none" /\ numFrames(reader) = 1
  /\ LET frame == frameInfo(reader, 0)
         num_pixels == frame.width * frame.height
     IN  dec' = DecInit(reader.buffer, frame.data_offset, Zeros(num_pixels), num_pixels)
  /\ lzw_phase' = "decode"
  /\ UNCHANGED <<gifVars, parseVars, enc, blit>>

BlitDecodeStep ==
  /\ lzw_phase = "decode"
  /\ dec' = DecStep(dec)
  /\ lzw_phase' = IF dec'.status = "returned" THEN "decoded" ELSE "decode"
  /\ UNCHANGED <<gifVars, parseVars, enc, blit>>

BlitStart ==
  /\ lzw_phase = "decoded"
  /\ blit = Idle
  /\ \E order \in {"BGRA", "RGBA"} :
       blit' = BlitInit(reader, frameInfo(reader, 0), dec.output,
                        Canvas(reader.width, reader.height), order)
  /\ UNCHANGED <<gifVars, parseVars, lzwVars>>

BlitPixelStep ==
  /\ blit # Idle
  /\ BlitRunning(blit)
  /\ blit' = BlitStep(blit)
  /\ UNCHANGED <<gifVars, parseVars, lzwVars>>

NextBlit ==
  \/ BlitConstruct \/ BlitAddFrame \/ End \/ BlitStartReader \/ ParseStep \/ ParseReturn
  \/ BlitCall \/ BlitDecodeStep \/ BlitStart \/ BlitPixelStep

SpecBlit == Init /\ [][NextBlit]_vars

(***************************************************************************)
(* The Writer with its output accessors: a writer with a global palette,   *)
(* addFrame and end calls on it, and setOutputBuffer and                   *)
(* setOutputBufferPosition calls between them.                             *)
(***************************************************************************)

\* this.buffer = v
setOutputBuffer(w, v) == [w EXCEPT !.buffer = v]

\* this.position = v
setOutputBufferPosition(w, v) == [w EXCEPT !.position = v]

\* the buffers handed to setOutputBuffer: a fresh one, and one that holds a
\* trailer byte
BufferInputs == {<< >>, <<59>>}

\* the positions handed to setOutputBufferPosition: after the first byte and
\* after the Logical Screen Descriptor
PositionInputs == {1, 13}

\* the addFrame calls tried: a frame of one pixel, and one whose x is negative
AccessFrameInputs ==
  {[x |-> x, y |-> 0, width |-> 1, height |-> 1, pixels |-> <<1>>,
    palette |-> NoPalette, delay |-> NaV, disposal |-> NaV, transparent |-> NaV] :
     x \in {0, 0 - 2}}

AccessAddFrame ==
  /\ Usable
  /\ Len(calls) < MaxFrames
  /\ \E f \in AccessFrameInputs :
       /\ writer' = AddFrameOf(writer, f)
       /\ calls' = IF writer'.error = "none"
                   THEN Append(calls, CallEntry(writer, writer', f))
                   ELSE calls
       /\ call' = [op |-> "addFrame",
                   ret |-> IF writer'.error = "none" THEN writer'.position ELSE NaV,
                   before |-> writer, args |-> f]
  /\ UNCHANGED <<parseVars, lzwVars, blit>>

\* setOutputBuffer(v), not after another accessor call
SetOutputBuffer ==
  /\ Usable
  /\ call.op \in {"new", "addFrame", "end"}
  /\ \E v \in BufferInputs :
       /\ writer' = setOutputBuffer(writer, v)
       /\ call' = [op |-> "setOutputBuffer", ret |-> NaV, before |-> writer, args |-> v]
  /\ UNCHANGED <<calls, parseVars, lzwVars, blit>>

\* setOutputBufferPosition(v), not after another setOutputBufferPosition
SetOutputBufferPosition ==
  /\ Usable
  /\ call.op # "setOutputBufferPosition"
  /\ \E v \in PositionInputs :
       /\ writer' = setOutputBufferPosition(writer, v)
       /\ call' = [op |-> "setOutputBufferPosition", ret |-> NaV, before |-> writer,
                   args |-> v]
  /\ UNCHANGED <<calls, parseVars, lzwVars, blit>>

NextAccess ==
  BlitConstruct \/ AccessAddFrame \/ End \/ SetOutputBuffer \/ SetOutputBufferPosition

SpecAccess == Init /\ [][NextAccess]_vars

(***************************************************************************)
(* The same blits on a stream that may hold no palette at all: the Writer  *)
(* refuses to write such a frame, so the Global Color Table is taken out   *)
(* of a stream it wrote.                                                   *)
(***************************************************************************)

\* buf, in the layout the constructor reads aligned, with the Global Color
\* Table Flag of its packed fields (offset 10) cleared and the table's bytes
\* (from offset 12) taken out
StripGlobalPalette(buf) ==
  LET size == 3 * Shl(1, BitAnd(buf[11], 7) + 1)
  IN  SubSeq(buf, 1, 10) \o <<BitAnd(buf[11], 127)>> \o <<buf[12]>>
      \o SubSeq(buf, 13 + size, Len(buf))

\* new Reader(buf) on the finished stream, interlaced or not, with its global
\* palette or with none
BlitStartBareReader ==
  /\ Usable
  /\ writer.ended
  /\ Len(calls) = 1
  /\ parse = Idle
  /\ shift' = 1
  /\ \E il \in BOOLEAN, bare \in BOOLEAN :
       LET aligned == DropByte(Slice(writer.buffer, writer.position), 12)
           flagged == IF il THEN SetInterlaceFlag(aligned, calls[1].data_at - 2)
                      ELSE aligned
       IN  input' = IF bare THEN StripGlobalPalette(flagged) ELSE flagged
  /\ parse' = ParseInit(input')
  /\ UNCHANGED <<gifVars, reader, lzwVars, blit>>

NextBlitBare ==
  \/ BlitConstruct \/ BlitAddFrame \/ End \/ BlitStartBareReader \/ ParseStep \/ ParseReturn
  \/ BlitCall \/ BlitDecodeStep \/ BlitStart \/ BlitPixelStep

SpecBlitBare == Init /\ [][NextBlitBare]_vars

(***************************************************************************)
(* The Reader on streams that hold Application Extensions: a header, a     *)
(* Logical Screen Descriptor as the constructor reads it, an optional      *)
(* Netscape block, the extension and the trailer.                          *)
(***************************************************************************)

\* GIF89a, a 1 x 1 screen, no global palette, one further byte
AppPrefix == <<71, 73, 70, 56, 57, 97, 1, 0, 1, 0, 0, 0>>

\* "NETSCAPE2.0"
NetscapeId == <<78, 69, 84, 83, 67, 65, 80, 69, 50, 46, 48>>

\* application identifiers: NETSCAPE2.0, two near misses and "XMP DataXMP"
AppIds ==
  {NetscapeId,
   [NetscapeId EXCEPT ![1] = 88],
   [NetscapeId EXCEPT ![11] = 49],
   <<88, 77, 80, 32, 68, 97, 116, 97, 88, 77, 80>>}

\* the data that follows the identifier, up to and including a terminator
AppData ==
  UNION {{<<3, 1, lo, hi, 0>>, <<3, 2, lo, hi, 0>>, <<2, 1, lo, 0>>,
          <<3, 1, lo, hi, 1, hi, 0>>} : lo \in {0, 5}, hi \in {0, 255}}
    \cup {<<0>>}

\* the extensions read: block size 11 or 10, an identifier of that length, data
AppExtensions ==
  {<<33, 255, size>> \o SubSeq(id, 1, size) \o data :
     size \in {10, 11}, id \in AppIds, data \in AppData}

\* new Reader(buf) is called on such a stream
AppStart ==
  /\ writer = Idle
  /\ parse = Idle
  /\ \E first \in {<< >>, <<33, 255, 11>> \o NetscapeId \o <<3, 1, 7, 0, 0>>} :
     \E ext \in AppExtensions :
       input' = AppPrefix \o first \o ext \o <<59>>
  /\ parse' = ParseInit(input')
  /\ UNCHANGED <<gifVars, shift, reader, lzwVars, blit>>

NextApp == AppStart \/ ParseStep \/ ParseReturn

SpecApp == Init /\ [][NextApp]_vars

(***************************************************************************)
(* The encoder on index streams long enough to fill its code table: 256    *)
(* colours, every pair of adjacent indices new, so that each index but the *)
(* first adds a table entry; then the decoder on the bytes written.        *)
(***************************************************************************)

\* the length of the part of the stream in which every pair is new; the
\* entry 4095 is added at its last index
TableStreamLen == 3839

\* the index at offset j: block j \div 256 steps through the 256 values in
\* strides of 2 * block + 1
TableSymbol(j) == ((j % 256) * (2 * (j \div 256) + 1)) % 256

TablePrefix == [j \in 1..TableStreamLen |-> TableSymbol(j - 1)]

\* what follows: nothing; an index that forms a new pair; an index that forms
\* a pair already in the table, alone and followed by more indices
TableTails ==
  LET last == TableSymbol(TableStreamLen - 1)
      miss == TableSymbol(TableStreamLen)
      hit == (last + 1) % 256
  IN  {<< >>, <<miss>>, <<hit>>, <<hit, 0, 1, 0, 1>>}

\* shorter streams of the same kind: their codes pack into 2, 254, 255, 256,
\* 510 and 511 bytes
FramingStreams == {SubSeq(TablePrefix, 1, n) : n \in {1, 223, 224, 225, 431, 432}}

InitTable ==
  /\ \E index_stream \in {TablePrefix \o tail : tail \in TableTails} \cup FramingStreams :
       enc = EncInit(<< >>, 0, 8, index_stream)
  /\ dec = Idle
  /\ lzw_phase = "encode"
  /\ writer = Idle /\ calls = << >> /\ call = Idle
  /\ input = << >> /\ shift = 0 /\ parse = Idle /\ reader = Idle
  /\ blit = Idle

\* the decoder is called on the written bytes with an output array as long
\* as the index stream
TableStartDecode ==
  /\ lzw_phase = "encoded"
  /\ dec' = DecInit(Slice(enc.buf, enc.p), 0, Zeros(Len(enc.index_stream)),
                    Len(enc.index_stream))
  /\ lzw_phase' = "decode"
  /\ UNCHANGED <<enc, gifVars, parseVars, blit>>

NextTable == EncodeStep \/ TableStartDecode \/ DecodeStep

SpecTable == InitTable /\ [][NextTable]_vars

(***************************************************************************)
(* Argument validation: the constructor and addFrame on valid and invalid  *)
(* arguments.  call.args holds the arguments of the call.                  *)
(***************************************************************************)

\* a palette of n entries, entry i the colour i
PaletteOfLen(n) == [i \in 1..n |-> i - 1]

\* palette lengths tried
PaletteLens == {0, 1, 2, 3, 4, 5, 8, 16, 32, 64, 128, 256, 257, 512}

\* constructor arguments: every canvas size with a valid palette, and every
\* palette with every background and loop on a valid canvas
ValidateCtorInputs ==
  {[width |-> wd, height |-> ht, palette |-> Pal4, loop |-> NaV, background |-> NaV] :
     wd \in {0 - 2, 0, 1, 65535, 65536}, ht \in {0 - 2, 0, 1, 65535, 65536}}
  \cup
  {[width |-> 2, height |-> 2, palette |-> pal, loop |-> loop, background |-> bg] :
     pal \in {NoPalette} \cup {PaletteOfLen(n) : n \in PaletteLens},
     loop \in {NaV, 0 - 2, 0, 65535, 65536},
     bg \in {NaV, 0 - 2, 0, 1, 2, 3, 4, 255, 256}}

\* the constructor arguments of the writers addFrame is tried on
ValidateWriters ==
  {[width |-> 2, height |-> 2, palette |-> pal, loop |-> NaV, background |-> NaV] :
     pal \in {NoPalette, PaletteOfLen(2), PaletteOfLen(4)}}

\* addFrame arguments: valid and invalid positions, sizes, pixel counts,
\* palettes, disposals and transparent indices; every index value on valid
\* frames; a local palette of every length on a valid frame; and every
\* combination of delay, disposal and transparent index on a valid frame
ValidateFrameInputs ==
  {[x |-> x, y |-> y, width |-> wd, height |-> ht, pixels |-> Zeros(n),
    palette |-> pal, delay |-> NaV, disposal |-> dsp, transparent |-> tr] :
     x \in {0 - 2, 0, 65535, 65536}, y \in {0, 65536}, wd \in {0, 1, 2, 65536},
     ht \in {0, 1}, n \in {0, 1, 2},
     pal \in {NoPalette, PaletteOfLen(0), PaletteOfLen(2), PaletteOfLen(3),
              PaletteOfLen(4)},
     dsp \in {NaV, 0 - 2, 3, 4}, tr \in {NaV, 0 - 2, 0, 1, 2, 4}}
  \cup
  {[x |-> 0, y |-> 0, width |-> Len(px), height |-> 1, pixels |-> px,
    palette |-> pal, delay |-> NaV, disposal |-> NaV, transparent |-> NaV] :
     px \in UNION {[1..n -> {0, 1, 2, 3, 255}] : n \in {1, 2}},
     pal \in {NoPalette, PaletteOfLen(2), PaletteOfLen(4), PaletteOfLen(8)}}
  \cup
  {[x |-> 0, y |-> 0, width |-> 1, height |-> 1, pixels |-> <<1>>,
    palette |-> PaletteOfLen(n), delay |-> NaV, disposal |-> NaV,
    transparent |-> NaV] : n \in PaletteLens}
  \cup
  {[x |-> 0, y |-> 0, width |-> 1, height |-> 1, pixels |-> <<1>>,
    palette |-> PaletteOfLen(2), delay |-> dl, disposal |-> dsp,
    transparent |-> tr] :
     dl \in {NaV, 0, 1, 256, 65535}, dsp \in {NaV, 0, 1, 3}, tr \in {NaV, 0, 1}}

\* new Writer(buf, width, height, options) on a fresh zero-filled buffer
NewCall ==
  /\ writer = Idle
  /\ \E c \in ValidateCtorInputs :
       /\ writer' = WriterNew(<< >>, c.width, c.height,
                              [palette |-> c.palette, loop |-> c.loop,
                               background |-> c.background])
       /\ call' = [op |-> "new", ret |-> NaV, before |-> writer, args |-> c]
  /\ UNCHANGED <<calls, parseVars, lzwVars, blit>>

\* writer.addFrame(...) as the first addFrame call on the writer, before or
\* after an end()
FrameCall ==
  /\ Usable
  /\ calls = << >>
  /\ call.op = "new" \/ (call.op = "end" /\ call.before.error = "none")
  /\ \E c \in ValidateWriters :
       writer.options = [palette |-> c.palette, loop |-> c.loop,
                         background |-> c.background]
  /\ \E f \in ValidateFrameInputs :
       /\ writer' = AddFrameOf(writer, f)
       /\ calls' = IF writer'.error = "none"
                   THEN Append(calls, CallEntry(writer, writer', f))
                   ELSE calls
       /\ call' = [op |-> "addFrame",
                   ret |-> IF writer'.error = "none" THEN writer'.position ELSE NaV,
                   before |-> writer, args |-> f]
  /\ UNCHANGED <<parseVars, lzwVars, blit>>

NextValidate == NewCall \/ FrameCall \/ End

SpecValidate == Init /\ [][NextValidate]_vars

(***************************************************************************)
(* The calls of SpecValidate, with frames whose delay or disposal option   *)
(* is null, undefined or a number: the calls on which the class-based      *)
(* Writer is compared with the closure-style GifWriter.                    *)
(***************************************************************************)

\* addFrame arguments: those of ValidateFrameInputs, and every combination of
\* delay, disposal and transparent index, null included, on a valid frame
EquivFrameInputs ==
  ValidateFrameInputs
  \cup
  {[x |-> 0, y |-> 0, width |-> 1, height |-> 1, pixels |-> <<1>>,
    palette |-> PaletteOfLen(2), delay |-> dl, disposal |-> dsp,
    transparent |-> tr] :
     dl \in {NaV, Null, 0, 10}, dsp \in {NaV, Null, 0, 2}, tr \in {NaV, 1}}

\* writer.addFrame(...) as the first addFrame call on one of ValidateWriters,
\* before or after an end()
EquivFrameCall ==
  /\ Usable
  /\ calls = << >>
  /\ call.op = "new" \/ (call.op = "end" /\ call.before.error = "none")
  /\ \E c \in ValidateWriters :
       writer.options = [palette |-> c.palette, loop |-> c.loop,
                         background |-> c.background]
  /\ \E f \in EquivFrameInputs :
       /\ writer' = AddFrameOf(writer, f)
       /\ calls' = IF writer'.error = "none"
                   THEN Append(calls, CallEntry(writer, writer', f))
                   ELSE calls
       /\ call' = [op |-> "addFrame",
                   ret |-> IF writer'.error = "none" THEN writer'.position ELSE NaV,
                   before |-> writer, args |-> f]
  /\ UNCHANGED <<parseVars, lzwVars, blit>>

NextEquiv == NewCall \/ EquivFrameCall \/ End

SpecEquiv == Init /\ [][NextEquiv]_vars

(***************************************************************************)
(* The decoder on code streams of any content, next to the codec runs of   *)
(* SpecLZW: a minimum-code-size byte, one sub-block of arbitrary bytes and *)
(* a terminator, or the end of the buffer in its place.                    *)
(***************************************************************************)

MaxPayloadLen == 3

\* the code streams tried: the minimum-code-size byte, the length byte, the
\* payload, and the terminator or nothing
RawStreams ==
  {<<mcs, Len(payload)>> \o payload \o term :
     mcs \in {2, 8, 11, 12},
     payload \in UNION {[1..n -> {0, 1, 76, 255}] : n \in 1..MaxPayloadLen},
     term \in {<<0>>, << >>}}

InitDecode ==
  /\ \E code_stream \in RawStreams : \E output_length \in {1, 4, 5} :
       dec = DecInit(code_stream, 0, Zeros(output_length), output_length)
  /\ enc = Idle
  /\ lzw_phase = "decode"
  /\ writer = Idle /\ calls = << >> /\ call = Idle
  /\ input = << >> /\ shift = 0 /\ parse = Idle /\ reader = Idle
  /\ blit = Idle

SpecDecode == (InitLZW \/ InitDecode) /\ [][NextLZW]_vars

(***************************************************************************)
(* The Reader constructor on buffers of any origin: finished Writer        *)
(* outputs, buffers whose first six bytes deviate from the header, and     *)
(* block sequences cut off at every length.                                *)
(***************************************************************************)

\* "GIF89a"
Gif89a == <<71, 73, 70, 56, 57, 97>>

\* the header with every value of the fifth byte, with one other byte changed,
\* and cut short, in front of a 1 x 1 screen without palette and a trailer
HeaderInputs ==
  {[Gif89a EXCEPT ![5] = b] \o SubSeq(AppPrefix, 7, 12) \o <<59>> : b \in 0..255}
    \cup UNION {{[Gif89a EXCEPT ![i] = v] \o SubSeq(AppPrefix, 7, 12) \o <<59>> :
                   v \in {0, 55, 57, Gif89a[i] - 1, Gif89a[i] + 1, Gif89a[i] + 32}} :
                  i \in {1, 2, 3, 4, 6}}
    \cup {SubSeq(Gif89a, 1, n) : n \in 0..5}

\* what precedes the blocks: GIF89a without a global palette, and GIF87a with a
\* global palette of two colours at offset 12
ScreenInputs ==
  {AppPrefix, <<71, 73, 70, 56, 55, 97, 1, 0, 1, 0, 128, 0, 1, 2, 3, 4, 5, 6>>}

\* blocks: a Comment, a Plain Text and a Graphics Control Extension, Application
\* Extensions of block size 11 and 10, a Netscape block, Image Descriptors
\* without and with a local palette, an unknown label, unknown tags, nothing
BlockInputs ==
  {<<33, 254, 2, 65, 66, 0>>,
   <<33, 1, 1, 65, 0>>,
   <<33, 249, 4, 5, 10, 0, 1, 0>>,
   <<33, 255, 11, 88, 77, 80, 32, 68, 97, 116, 97, 88, 77, 80, 1, 7, 0>>,
   <<33, 255, 10, 88, 77, 80, 32, 68, 97, 116, 97, 88, 77, 2, 1, 2, 0>>,
   <<33, 255, 11>> \o NetscapeId \o <<3, 1, 7, 0, 0>>,
   <<44, 0, 0, 0, 0, 1, 0, 1, 0, 0, 2, 2, 76, 1, 0>>,
   <<44, 0, 0, 0, 0, 1, 0, 1, 0, 128, 9, 8, 7, 6, 5, 4, 2, 2, 76, 1, 0>>,
   <<33, 2, 0>>,
   <<58, 0>>,
   <<0>>,
   << >>}

\* a screen, two blocks and a trailer or none, cut off at every length from the
\* end of the header on
MalformedInputs ==
  UNION {{SubSeq(screen \o b1 \o b2 \o tail, 1, n) :
            n \in 6..Len(screen \o b1 \o b2 \o tail)} :
           screen \in ScreenInputs, b1 \in BlockInputs, b2 \in BlockInputs,
           tail \in {<<59>>, << >>}}

\* the ended writers whose output is read: new Writer, no or one addFrame, end()
EndedWriters ==
  LET made == {WriterNew(<< >>, c.width, c.height,
                         [palette |-> c.palette, loop |-> c.loop,
                          background |-> c.background]) : c \in CtorInputs}
      framed == {AddFrameOf(w, f) : w \in made, f \in FrameInputs}
  IN  {end(w) : w \in {v \in made \cup framed : v.error = "none"}}

\* new Reader(buf) is called, on buf.slice(0, gf.end()) of an ended writer or
\* on a buffer of another origin (writer Idle)
InitParse ==
  /\ \/ /\ writer = Idle
        /\ input \in HeaderInputs \cup MalformedInputs
     \/ /\ writer \in EndedWriters
        /\ input = Slice(writer.buffer, writer.position)
  /\ calls = << >> /\ call = Idle
  /\ shift = 0 /\ parse = ParseInit(input) /\ reader = Idle
  /\ enc = Idle /\ dec = Idle /\ lzw_phase = "idle"
  /\ blit = Idle

NextParse == ParseStep \/ ParseReturn

SpecParse == InitParse /\ [][NextParse]_vars

(***************************************************************************)
(* Properties                                                              *)
(***************************************************************************)

\* the frames of the constructed reader
Frames == IF reader = Idle THEN << >> ELSE reader.frames

\* the first width * height entries of the pixels handed to the i-th addFrame
WrittenPixels(i) ==
  SubSeq(calls[i].args.pixels, 1, calls[i].args.width * calls[i].args.height)

\* readerLZWOutputIndexStream at frameInfo(i - 1).data_offset, width * height long
DecodedFrame(i) ==
  LET frame == frameInfo(reader, i - 1)
      num_pixels == frame.width * frame.height
  IN  readerLZWOutputIndexStream(reader.buffer, frame.data_offset,
                                 Zeros(num_pixels), num_pixels)

\* C1: for every power-of-two palette size in 2..256 and every non-empty index
\* sequence below it, decoding the bytes the encoder wrote, with output_length
\* equal to the sequence's length, returns the output holding exactly that
\* sequence and logs no warning.
LZWRoundTrip ==
  (lzw_phase = "decoded" /\ dec.output_length = Len(enc.index_stream)) =>
    /\ dec.ret = "output"
    /\ dec.warning = "none"
    /\ dec.op = dec.output_length
    /\ Slice(dec.output, dec.output_length) = enc.index_stream

\* a decoded stream of at least four indices whose code width grew and which
\* used a code the decoder had not yet inserted
LZWRoundTripWitness ==
  /\ lzw_phase = "decoded"
  /\ dec.output_length = Len(enc.index_stream)
  /\ Len(enc.index_stream) >= 4
  /\ dec.ret = "output"
  /\ \E j \in 1..Len(dec.widths) : dec.widths[j] > dec.min_code_size + 1

\* C2: a Reader constructed on the finished output of a Writer yields every
\* frame, and decoding at frameInfo(i).data_offset with output_length
\* width * height returns the indices handed to addFrame, whether the frame
\* used the global palette or its own.
EndToEndDecode ==
  (reader # Idle /\ shift = 0) =>
    /\ reader.error = "none"
    /\ numFrames(reader) = Len(calls)
    /\ \A i \in 1..Len(calls) :
         /\ DecodedFrame(i).ret = "output"
         /\ DecodedFrame(i).output = WrittenPixels(i)

\* C3: for every frame of a stream the Reader parsed to its end, data_offset
\* is the offset of the minimum-code-size byte (just after the frame's local
\* colour table when it has one) and data_offset + data_length is the offset
\* just past the zero-length terminator of its sub-blocks.
DataRange ==
  (reader # Idle /\ reader.error = "none") =>
    /\ Len(Frames) = Len(calls)
    /\ \A i \in 1..Len(Frames) :
         /\ Frames[i].data_offset = calls[i].data_at - shift
         /\ Frames[i].data_offset + Frames[i].data_length = calls[i].stop - shift

\* C4: the delay, disposal and transparent index given to each addFrame are
\* what frameInfo reports for that frame of the Reader constructed on the
\* output (0, 0 and null when not given), also for frames that follow a
\* frame with other values.
MetadataRoundTrip ==
  (reader # Idle /\ shift = 0) =>
    /\ reader.error = "none"
    /\ Len(Frames) = Len(calls)
    /\ \A i \in 1..Len(Frames) :
         /\ Frames[i].delay = Num(calls[i].args.delay)
         /\ Frames[i].disposal = Num(calls[i].args.disposal)
         /\ Frames[i].transparent_index = calls[i].args.transparent

\* C5: a frame whose Image Descriptor is not preceded by a Graphics Control
\* Extension of its own has delay 0, disposal 0 and no transparent index:
\* the values of an earlier extension do not carry over.
GceScope ==
  \A i \in 1..Len(Frames) :
    ~Frames[i].gce =>
      /\ Frames[i].delay = 0
      /\ Frames[i].disposal = 0
      /\ Frames[i].transparent_index = NaV

\* the frames written so far lie end to end and stop at offset at
FramesTile(at) ==
  /\ \A i \in 1..(Len(calls) - 1) : calls[i].stop = calls[i + 1].start
  /\ Len(calls) >= 1 => calls[Len(calls)].stop = at

\* C6: an addFrame after end() starts writing at the former trailer's offset,
\* and the end() that follows writes one trailer: whenever the writer is
\* ended, the byte at position - 1 is the trailer 0x3B and all frames lie end
\* to end right before it, so no trailer is left between them.
UnEnding ==
  /\ (Usable /\ writer.ended) =>
       /\ RdByte(writer.buffer, writer.position - 1) = 59
       /\ FramesTile(writer.position - 1)
  /\ (Usable /\ call.op = "addFrame" /\ call.before.ended /\ writer.error = "none") =>
       /\ calls[Len(calls)].start = call.before.position - 1
       /\ RdByte(writer.buffer, call.before.position - 1) \in {33, 44}
  /\ (Usable /\ ~writer.ended /\ writer.error = "none") => FramesTile(writer.position)

\* the second frame of a stream was just added to a writer that was ended
UnEndingWitness ==
  /\ Usable
  /\ call.op = "addFrame"
  /\ call.before.ended
  /\ writer.error = "none"
  /\ Len(calls) = 2
  /\ writer.position > call.before.position

\* C7: end() on an ended writer changes neither the buffer nor the position
\* and returns the same position, at which the single trailer stays last.
EndIdempotent ==
  (Usable /\ call.op = "end" /\ call.before.ended) =>
    /\ writer.ended
    /\ writer.position = call.before.position
    /\ writer.buffer = call.before.buffer
    /\ call.ret = call.before.position
    /\ RdByte(writer.buffer, writer.position - 1) = 59

\* end() called on a writer that a previous end() had ended
EndIdempotentWitness ==
  /\ Usable
  /\ call.op = "end"
  /\ call.before.ended
  /\ Len(calls) >= 1

\* C8: the Reader constructed on the output reports as many frames as
\* addFrame was called, each with the x, y, width and height it was given and
\* interlaced false.
FrameListRoundTrip ==
  (reader # Idle /\ shift = 0) =>
    /\ reader.error = "none"
    /\ numFrames(reader) = Len(calls)
    /\ \A i \in 1..Len(Frames) :
         /\ Frames[i].x = calls[i].args.x
         /\ Frames[i].y = calls[i].args.y
         /\ Frames[i].width = calls[i].args.width
         /\ Frames[i].height = calls[i].args.height
         /\ ~Frames[i].interlaced

\* the rows below h that leave remainder r modulo m, in increasing order
RECURSIVE PassRows(_, _, _, _)
PassRows(h, m, r, from) ==
  IF from >= h THEN << >>
  ELSE IF from % m = r THEN <<from>> \o PassRows(h, m, r, from + 1)
  ELSE PassRows(h, m, r, from + 1)

\* the four passes of an interlaced frame of height h
InterlaceRows(h) ==
  PassRows(h, 8, 0, 0) \o PassRows(h, 8, 4, 0) \o PassRows(h, 4, 2, 0)
    \o PassRows(h, 2, 1, 0)

\* the blit call went through its whole index stream
BlitDone == blit # Idle /\ blit.error = "none" /\ blit.i = Len(blit.index_stream)

\* C9: for an interlaced frame of any height h >= 1 the k-th row of the index
\* stream is put on the k-th row of the pass order (rows 0, 8, .. then
\* 4, 12, .. then 2, 6, .. then 1, 3, ..), every row of the frame once.
InterlaceOrder ==
  (BlitDone /\ blit.frame.interlaced) => blit.rows = InterlaceRows(blit.frame.height)

\* C10: the decoder stores at no output index at or past output_length, also
\* on a stream that decodes to more than output_length indices, and when it
\* returns without a warning op is output_length.
DecoderOutputBound ==
  lzw_phase \in {"decode", "decoded"} =>
    /\ \A at \in dec.wrote : at < dec.output_length
    /\ (dec.status = "returned" /\ dec.warning = "none") => dec.op = dec.output_length

\* C11: when the codes of the stream expand to more entries than
\* output_length the decoder stops early and logs "longer than expected";
\* when they expand to fewer it logs "shorter than expected" and returns the
\* partial output; when they expand to exactly output_length it logs nothing.
LengthClassification ==
  lzw_phase = "decoded" =>
    /\ Len(enc.index_stream) > dec.output_length =>
         (dec.warning = "longer" /\ dec.ret = "undefined")
    /\ Len(enc.index_stream) < dec.output_length =>
         /\ dec.warning = "shorter"
         /\ dec.ret = "output"
         /\ Slice(dec.output, Len(enc.index_stream)) = enc.index_stream
    /\ Len(enc.index_stream) = dec.output_length => dec.warning = "none"

\* an Application Extension in the form the Netscape looping block has: block
\* size 11, NETSCAPE2.0, the sub-block 03 01 lo hi and the terminator 00
IsNetscapeBlock(buf, p) ==
  /\ RdByte(buf, p) = 11
  /\ SubSeq(buf, p + 2, p + 12) = NetscapeId
  /\ RdByte(buf, p + 12) = 3
  /\ RdByte(buf, p + 13) = 1
  /\ RdByte(buf, p + 16) = 0

\* C12: the parser takes a loop count only from an Application Extension of
\* block size 11 with the identifier NETSCAPE2.0 and the sub-block
\* 03 01 lo hi 00; every other Application Extension is passed by scanning its
\* sub-blocks, leaves the loop count as it was and leaves the parser at the
\* tag of the next block.
NetscapeOnly ==
  [][(parse # Idle /\ parse' # Idle /\ parse' # parse
      /\ RdByte(input, parse.p) = 33 /\ RdByte(input, parse.p + 1) = 255) =>
       IF IsNetscapeBlock(input, parse.p + 2)
       THEN /\ parse'.loop_count = RdByte(input, parse.p + 16)
                                   + 256 * RdByte(input, parse.p + 17)
            /\ parse'.p = parse.p + 19
       ELSE /\ parse'.error = "none"
            /\ parse'.loop_count = parse.loop_count
            /\ parse'.p = SkipSubBlocks(input, parse.p + 2)
            /\ RdByte(input, parse'.p) \in {33, 44, 59}]_vars

\* C13: the Reader constructed on the output of a Writer that was given
\* loop = n reports getLoopCount() = n, and null when no loop was given,
\* whatever frames follow.
LoopRoundTrip ==
  (reader # Idle /\ shift = 0) =>
    /\ reader.error = "none"
    /\ getLoopCount(reader) = writer.options.loop

\* the call that was made last is op, with the arguments call.args
Called(op) == call # Idle /\ call.op = op

\* C14: a constructor call with a background succeeds only if a global
\* palette is given and 0 < background < palette size, so the background byte
\* of the Logical Screen Descriptor (offset 11) is 0 or in [1, palette size).
BackgroundValidation ==
  (Called("new") /\ writer.error = "none") =>
    /\ call.args.background # NaV =>
         /\ call.args.palette # NoPalette
         /\ 0 < call.args.background
         /\ call.args.background < Len(call.args.palette)
    /\ \/ RdByte(writer.buffer, 11) = 0
       \/ /\ call.args.palette # NoPalette
          /\ RdByte(writer.buffer, 11) \in 1..(Len(call.args.palette) - 1)

\* C15: when the constructor throws a validation error (canvas size, global
\* palette size, background, loop count) it has written no byte to the
\* caller's buffer.
ConstructorWritesNothing ==
  (Called("new") /\ writer.error # "none") => writer.buffer = << >>

\* C16: when addFrame throws a validation error (x/y, width/height, too few
\* pixels, no palette, palette size, disposal, transparent index) the call has
\* changed no byte of the output buffer.
FailedAddFrameWritesNothing ==
  (Called("addFrame") /\ writer.error # "none") =>
    writer.buffer = call.before.buffer

\* the last of the validations fails on a writer that was ended
FailedAddFrameWritesNothingWitness ==
  /\ Called("addFrame")
  /\ writer.error = "Transparent color index."
  /\ call.before.ended
  /\ writer.position = call.before.position - 1
  /\ RdByte(writer.buffer, writer.position) = 59

\* the palette a frame uses: the local one when given, else the one given to
\* the constructor; NoPalette when neither was given
EffectivePalette(f) ==
  IF f.palette # NoPalette THEN f.palette ELSE writer.options.palette

ValidPaletteSizes == {2, 4, 8, 16, 32, 64, 128, 256}

\* the error of the first condition, in the order the conditions are stated,
\* that the arguments f of an addFrame call violate; "none" when all hold
FirstViolated(f) ==
  IF ~(f.x \in 0..65535 /\ f.y \in 0..65535) THEN "x/y invalid."
  ELSE IF ~(f.width \in 1..65535 /\ f.height \in 1..65535) THEN "Width/Height invalid."
  ELSE IF ~(Len(f.pixels) >= f.width * f.height)
  THEN "Not enough pixels for the frame size."
  ELSE IF EffectivePalette(f) = NoPalette
  THEN "Must supply either a local or global palette."
  ELSE IF Len(EffectivePalette(f)) \notin ValidPaletteSizes THEN InvalidPaletteMsg
  ELSE IF ~(f.disposal = NaV \/ f.disposal \in 0..3) THEN "Disposal out of range."
  ELSE IF ~(f.transparent = NaV \/ f.transparent \in 0..(Len(EffectivePalette(f)) - 1))
  THEN "Transparent color index."
  ELSE "none"

\* C17: addFrame succeeds if and only if x, y are in [0,65535], width, height
\* in [1,65535], there are at least width * height indices, an effective
\* palette exists and has a valid size, disposal is in 0..3 and the transparent
\* index, when given, is below the effective palette size; otherwise it throws
\* the error of the first of these conditions that is violated.
AddFrameValidation ==
  Called("addFrame") => writer.error = FirstViolated(call.args)

\* a call with two invalid arguments throws the error of the earlier one
AddFrameValidationWitness ==
  /\ Called("addFrame")
  /\ call.args.width * call.args.height > Len(call.args.pixels)
  /\ call.args.palette # NoPalette
  /\ Len(call.args.palette) = 3
  /\ call.args.disposal = 4
  /\ writer.error = "Not enough pixels for the frame size."

\* C18: a global palette (constructor) or a local palette (addFrame) is
\* accepted if and only if its length is a power of two in 2..256; a palette
\* of any other length (0, 1, 3, 5, 257, 512, ...) is rejected with the
\* invalid-length error.
PaletteValidation ==
  /\ (Called("new") /\ call.args.palette # NoPalette
      /\ writer.error # "Width/Height invalid.") =>
       (writer.error = InvalidPaletteMsg
          <=> Len(call.args.palette) \notin ValidPaletteSizes)
  /\ (Called("addFrame") /\ call.args.palette # NoPalette
      /\ writer.error \notin {"x/y invalid.", "Width/Height invalid.",
                              "Not enough pixels for the frame size."}) =>
       (writer.error = InvalidPaletteMsg
          <=> Len(call.args.palette) \notin ValidPaletteSizes)

\* a local palette of 256 colours was accepted and written
PaletteValidationWitness ==
  /\ Called("addFrame")
  /\ Len(call.args.palette) = 256
  /\ writer.error = "none"
  /\ writer.position > call.before.position + 768

\* the indices a decoder reads from the frame the last addFrame wrote:
\* readerLZWOutputIndexStream at the frame's code stream, width * height long
DecodedIndices ==
  LET num_pixels == call.args.width * call.args.height
  IN  readerLZWOutputIndexStream(writer.buffer, writer.data_at,
                                 Zeros(num_pixels), num_pixels).output

\* C19: whatever byte values are handed to addFrame as indices and whatever
\* the valid palette size (2 included), decoding the frame that was written
\* yields only values below the size of the frame's effective palette.
IndicesBelowPaletteSize ==
  (Called("addFrame") /\ writer.error = "none") =>
    \A i \in 1..Len(DecodedIndices) :
      DecodedIndices[i] < Len(EffectivePalette(call.args))

\* next_code is at most 4096 and the table holds next_code - (eoi_code + 1)
\* entries: with the 258 codes below them at most 4096 in all
TableBounded ==
  enc # Idle =>
    /\ enc.next_code <= TableFull
    /\ Cardinality(DOMAIN enc.code_table) = enc.next_code - (enc.eoi_code + 1)

\* the encoder is at the head of its loop with an index left to read
AtLoopHead == enc # Idle /\ lzw_phase = "encode" /\ enc.i < Len(enc.index_stream)

\* the key (ib_code, k) of the iteration about to run
NextKey ==
  BitOr(Shl(enc.ib_code, 8), BitAnd(enc.index_stream[enc.i + 1], enc.code_mask))

\* an iteration that assigns a code assigns next_code, at most 4095, to the
\* key of the iteration and changes no other entry
AssignsBelowFull ==
  (AtLoopHead /\ enc'.next_code > enc.next_code) =>
    /\ enc.next_code <= TableFull - 1
    /\ enc'.next_code = enc.next_code + 1
    /\ enc'.code_table = (NextKey :> enc.next_code) @@ enc.code_table

\* C20 as stated: the encoder never assigns a code above 4095 (the table
\* never exceeds 4096 entries), and once next_code has reached 4096 it emits a
\* Clear Code before it reads another index: no iteration of the loop reads an
\* index with next_code = 4096.
DictionaryBound ==
  /\ []TableBounded
  /\ [][AssignsBelowFull]_vars
  /\ [][(AtLoopHead /\ enc.next_code = TableFull) => enc'.i = enc.i]_vars

\* C20, amended: the encoder never assigns a code above 4095 (the table
\* never exceeds 4096 entries), and once next_code has reached 4096 it adds
\* no entry: an index read then either extends a sequence of the table, with
\* nothing emitted and the table left as it is, or makes the encoder emit the
\* pending code directly followed by a Clear Code and reset the table,
\* next_code and the code size.
DictionaryBoundDeferred ==
  /\ []TableBounded
  /\ [][AssignsBelowFull]_vars
  /\ [][(AtLoopHead /\ enc.next_code = TableFull) =>
          \/ /\ enc'.codes = enc.codes
             /\ enc'.code_table = enc.code_table
             /\ enc'.next_code = TableFull
             /\ enc'.ib_code \in (enc.eoi_code + 1)..(TableFull - 1)
          \/ /\ enc'.codes = enc.codes \o <<enc.ib_code, enc.clear_code>>
             /\ enc'.code_table = << >>
             /\ enc'.next_code = enc.eoi_code + 1
             /\ enc'.cur_code_size = enc.min_code_size + 1]_vars

\* with the table full an index extended a known pair, and the next one made
\* the encoder emit that pair's code and then the Clear Code
DictionaryBoundDeferredWitness ==
  /\ enc # Idle
  /\ Len(enc.codes) > TableFull - 258
  /\ enc.codes[Len(enc.codes)] = enc.clear_code
  /\ enc.codes[Len(enc.codes) - 1] > enc.eoi_code
  /\ enc.next_code = enc.eoi_code + 1
  /\ enc.code_table = << >>

\* the offsets in the encoder's codes of the Clear Codes after the first
MidStreamClears ==
  {j \in 2..Len(enc.codes) : enc.codes[j] = enc.clear_code}

\* C21: when the encoder needs a new entry while its table is full it emits
\* the pending code and then a Clear Code, both at 12 bits, and goes on at
\* min_code_size + 1 bits; the decoder reads the same codes at the same
\* widths, so it resets at the same code, and the stream decodes to the
\* indices that were encoded.
TableOverflowRoundTrip ==
  (lzw_phase = "decoded" /\ dec.output_length = Len(enc.index_stream)) =>
    /\ \A j \in MidStreamClears :
         /\ enc.widths[j - 1] = 12
         /\ enc.widths[j] = 12
         /\ enc.widths[j + 1] = enc.min_code_size + 1
    /\ dec.codes = enc.codes
    /\ dec.widths = enc.widths
    /\ dec.ret = "output"
    /\ dec.warning = "none"
    /\ dec.output = enc.index_stream

\* a stream with a Clear Code at the full table, followed by more codes, was
\* decoded
TableOverflowRoundTripWitness ==
  /\ lzw_phase = "decoded"
  /\ dec.ret = "output"
  /\ \E j \in MidStreamClears : j > TableFull - 258 /\ j + 2 < Len(enc.codes)

\* the widths at which a codec (encoder or decoder record r) has emitted or
\* read its codes: min_code_size + 1 for the first code and for the code after
\* a Clear Code, otherwise no less than for the code before, and at most 12
WidthsInOrder(r) ==
  /\ r.cur_code_size <= 12
  /\ \A j \in 1..Len(r.widths) :
       /\ r.widths[j] <= 12
       /\ (j = 1 \/ r.codes[j - 1] = r.clear_code) => r.widths[j] = r.min_code_size + 1
       /\ (j > 1 /\ r.codes[j - 1] # r.clear_code) => r.widths[j] >= r.widths[j - 1]

\* C22: in the encoder, for every minimum code size 2..8 and every input, and
\* in the decoder, for every input stream, the code width is
\* min_code_size + 1 at the start and right after every Clear Code, never
\* decreases between two Clear Codes and never exceeds 12.
CodeWidthInvariant ==
  /\ enc # Idle => WidthsInOrder(enc)
  /\ dec # Idle => WidthsInOrder(dec)

\* the lengths of the data sub-blocks of the chain whose first length byte is
\* at offset p, up to the first length byte that is 0 or past the end
RECURSIVE ChainLengths(_, _)
ChainLengths(buf, p) ==
  IF RdByte(buf, p) <= 0 THEN << >>
  ELSE <<RdByte(buf, p)>> \o ChainLengths(buf, p + RdByte(buf, p) + 1)

\* their payloads, concatenated
RECURSIVE ChainPayload(_, _)
ChainPayload(buf, p) ==
  IF RdByte(buf, p) <= 0 THEN << >>
  ELSE SubSeq(buf, p + 2, p + RdByte(buf, p) + 1)
         \o ChainPayload(buf, p + RdByte(buf, p) + 1)

\* the offset of that first length byte
RECURSIVE ChainEnd(_, _)
ChainEnd(buf, p) ==
  IF RdByte(buf, p) <= 0 THEN p ELSE ChainEnd(buf, p + RdByte(buf, p) + 1)

\* C23: the bytes the encoder writes after the minimum-code-size byte are a
\* chain of sub-blocks: every data sub-block but the last is 255 bytes long,
\* the last 1..255, one zero-length sub-block ends the chain, the payloads
\* joined are the packed code bytes in order, and the returned cursor is the
\* offset just past the terminator, also when the packed data is a multiple
\* of 255 bytes long.
SubBlockFraming ==
  lzw_phase = "encoded" =>
    LET lens == ChainLengths(enc.buf, 1)
    IN  /\ Len(lens) >= 1
        /\ \A j \in 1..(Len(lens) - 1) : lens[j] = 255
        /\ lens[Len(lens)] \in 1..255
        /\ RdByte(enc.buf, ChainEnd(enc.buf, 1)) = 0
        /\ enc.p = ChainEnd(enc.buf, 1) + 1
        /\ Len(enc.buf) = enc.p
        /\ ChainPayload(enc.buf, 1) = enc.bytes

\* the packed data of a finished call is 255 bytes long
SubBlockFramingWitness ==
  /\ lzw_phase = "encoded"
  /\ Len(enc.bytes) = 255
  /\ ChainLengths(enc.buf, 1) = <<255>>
  /\ enc.p = 258

\* the offset at which a call of addFrame starts to write: the position of
\* the writer, the trailer's offset when the writer was ended
FrameStart ==
  IF call.before.ended THEN call.before.position - 1 ELSE call.before.position

\* C24: addFrame writes the Graphics Control Extension 21 F9 04,
\* disposal << 2 | transparent flag, delay low, delay high, transparent index,
\* 00 directly before the Image Descriptor if and only if disposal is not 0 or
\* a transparent index is given or delay is not 0; otherwise the frame starts
\* with 0x2C.
GraphicsControlEmission ==
  (Called("addFrame") /\ writer.error = "none") =>
    LET f == call.args
        disposal == IF f.disposal = NaV THEN 0 ELSE f.disposal
        delay == IF f.delay = NaV THEN 0 ELSE f.delay
        given == f.transparent # NaV
    IN  IF disposal # 0 \/ given \/ delay # 0
        THEN /\ SubSeq(writer.buffer, FrameStart + 1, FrameStart + 8)
                  = <<33, 249, 4,
                      4 * disposal + (IF given THEN 1 ELSE 0),
                      delay % 256, (delay \div 256) % 256,
                      IF given THEN f.transparent ELSE 0, 0>>
             /\ RdByte(writer.buffer, FrameStart + 8) = 44
        ELSE RdByte(writer.buffer, FrameStart) = 44

\* a frame with delay 0 and transparent index 0 given, written after an end()
GraphicsControlEmissionWitness ==
  /\ Called("addFrame")
  /\ writer.error = "none"
  /\ call.args.delay = 0
  /\ call.args.disposal = NaV
  /\ call.args.transparent = 0
  /\ call.before.ended
  /\ RdByte(writer.buffer, FrameStart) = 33

\* the palette fields of the i-th frame of the reader are those of the i-th
\* addFrame: with a local palette has_local_palette, its length and its R, G,
\* B bytes at palette_offset; without one the global table, which the reader's
\* input holds at offset at
PaletteOfFrame(i, at) ==
  IF calls[i].args.palette # NoPalette
  THEN /\ Frames[i].has_local_palette
       /\ Frames[i].palette_size = Len(calls[i].args.palette)
       /\ SubSeq(reader.buffer, Frames[i].palette_offset + 1,
                 Frames[i].palette_offset + 3 * Frames[i].palette_size)
            = PaletteBytes(calls[i].args.palette)
  ELSE /\ ~Frames[i].has_local_palette
       /\ Frames[i].palette_offset = at
       /\ Frames[i].palette_size = Len(writer.options.palette)

\* C25: a frame written with a local palette reads back with
\* has_local_palette = true, palette_size = the palette's length and the
\* palette's R, G, B bytes at palette_offset; a frame written without one reads
\* back with has_local_palette = false and the global table's offset and size;
\* no frame is written with neither a local nor a global palette.
PaletteRoundTrip ==
  /\ \A i \in 1..Len(calls) :
       calls[i].args.palette # NoPalette \/ writer.options.palette # NoPalette
  /\ (reader # Idle /\ shift = 0) =>
       /\ reader.error = "none"
       /\ Len(Frames) = Len(calls)
       /\ \A i \in 1..Len(Frames) : PaletteOfFrame(i, 13)

\* the four bytes stored for palette entry index (0xRRGGBB), in channel order
ColourBytes(palette, index, order) ==
  LET red == palette[index + 1] \div 65536
      green == (palette[index + 1] \div 256) % 256
      blue == palette[index + 1] % 256
  IN  IF order = "BGRA" THEN <<blue, green, red, 255>> ELSE <<red, green, blue, 255>>

\* C26: one iteration of the blit loop on a decoded index equal to the frame's
\* transparent index leaves the whole pixel buffer, and so the four bytes of
\* the destination pixel, as it was; on any other index the four bytes of the
\* destination pixel become the writer's palette entry in the selected channel
\* order followed by 255, and no other byte changes.
BlitTransparency ==
  [][(blit # Idle /\ blit' # Idle /\ blit'.i = blit.i + 1) =>
       LET index == blit.index_stream[blit.i + 1]
           op == blit'.op - 4
       IN  IF index = frameInfo(reader, 0).transparent_index
           THEN blit'.pixels = blit.pixels
           ELSE /\ op >= 0 /\ op + 4 <= Len(blit.pixels)
                /\ SubSeq(blit'.pixels, op + 1, op + 4)
                     = ColourBytes(writer.options.palette, index, blit.order)
                /\ \A j \in 1..Len(blit.pixels) :
                     j \notin (op + 1)..(op + 4) => blit'.pixels[j] = blit.pixels[j]]_vars

\* a finished blit of a frame whose first row was transparent and kept the
\* canvas bytes while other rows were stored to, in either channel order
BlitTransparencyWitness ==
  /\ blit # Idle
  /\ blit.i = Len(blit.index_stream)
  /\ blit.trans = 0
  /\ blit.touched # {}
  /\ SubSeq(blit.pixels, blit.opbeg + 1, blit.opbeg + 4) = <<9, 9, 9, 9>>
  /\ \E op \in blit.touched :
       SubSeq(blit.pixels, op + 1, op + 4) = <<255, 0, 0, 255>>

\* the first six bytes of buf are GIF87a or GIF89a
IsGifHeader(buf) ==
  /\ Len(buf) >= 6
  /\ SubSeq(buf, 1, 6) \in {Gif89a, [Gif89a EXCEPT ![5] = 55]}

\* C27: the constructor throws the invalid-header error exactly when the first
\* six bytes of the buffer are neither GIF87a nor GIF89a, and the output of
\* every ended Writer starts with GIF89a and does not raise that error.
HeaderAcceptance ==
  /\ reader # Idle =>
       (reader.error = "Invalid GIF 87a/89a header." <=> ~IsGifHeader(input))
  /\ writer # Idle =>
       /\ SubSeq(input, 1, 6) = Gif89a
       /\ reader # Idle => reader.error # "Invalid GIF 87a/89a header."

\* the constructor threw the invalid-header error on a buffer that starts GIF88a
HeaderRejectedWitness ==
  /\ reader # Idle
  /\ Len(input) >= 6
  /\ SubSeq(input, 1, 6) = [Gif89a EXCEPT ![5] = 56]
  /\ reader.error = "Invalid GIF 87a/89a header."

\* the chain of sub-blocks whose first length byte is at offset q runs past the
\* end of buf without a zero-length terminator
RECURSIVE RunsPastEnd(_, _)
RunsPastEnd(buf, q) ==
  IF q >= Len(buf) THEN TRUE
  ELSE IF buf[q + 1] = 0 THEN FALSE
  ELSE RunsPastEnd(buf, q + 1 + buf[q + 1])

\* the offset of the first length byte of the image data of the Image
\* Descriptor whose tag is at offset p: past the descriptor, the local palette
\* and the code size
ImageDataAt(buf, p) ==
  LET pf2 == Num(RdByte(buf, p + 9))
  IN  p + 10 + (IF pf2 >= 128 THEN 3 * 2 ^ ((pf2 % 8) + 1) ELSE 0) + 1

\* the block at offset p of buf is one the constructor has to throw on
MalformedBlock(buf, p) ==
  LET tag == RdByte(buf, p)
      label == RdByte(buf, p + 1)
  IN  \/ tag \notin {33, 44, 59}
      \/ tag = 33 /\ label \notin {255, 249, 1, 254}
      \/ tag = 33 /\ label \in {255, 249, 1, 254} /\ RunsPastEnd(buf, p + 2)
      \/ tag = 44 /\ RunsPastEnd(buf, ImageDataAt(buf, p))

\* C28: when the block loop of the constructor meets an unknown top-level tag,
\* an unknown extension label or a sub-block chain that runs past the end of
\* the buffer, the constructor throws, and a constructor that threw leaves no
\* frame list.
ParseErrorsTotal ==
  [][/\ (parse # Idle /\ parse' # parse /\ MalformedBlock(input, parse.p))
          => parse'.error # "none"
     /\ (reader' # Idle /\ reader'.error # "none") => reader'.frames = NoFrames]_vars

\* C29: when the constructor succeeds, every frame descriptor has
\* 0 <= data_offset and data_offset + data_length <= buffer length, and the
\* palette of a frame that has one ends within the buffer.
FrameRangesInBuffer ==
  (reader # Idle /\ reader.error = "none") =>
    \A i \in 1..Len(Frames) :
      /\ 0 <= Frames[i].data_offset
      /\ Frames[i].data_offset + Frames[i].data_length <= Len(input)
      /\ Frames[i].palette_offset # NaV =>
           /\ 0 <= Frames[i].palette_offset
           /\ Frames[i].palette_offset + 3 * Frames[i].palette_size <= Len(input)

\* a successful constructor on a buffer that ends with the terminator of the
\* image data of a frame with a local palette, after a frame with the global one
FrameRangesInBufferWitness ==
  /\ reader # Idle /\ reader.error = "none"
  /\ Len(Frames) = 2
  /\ ~Frames[1].has_local_palette /\ Frames[1].palette_offset = 12
  /\ Frames[2].has_local_palette
  /\ Frames[2].data_offset + Frames[2].data_length = Len(input)

\* the GifWriter that made the same calls as the Writer w: the variables of its
\* closure hold what the fields of w hold
GifStateOf(w) ==
  [buf |-> w.buffer, p |-> w.position, ended |-> w.ended,
   global_palette |-> w.globalPalette, error |-> w.error]

\* the GifWriter after the call that call records, made in the state that
\* corresponds to the Writer's before the call
GifAfter(c) ==
  IF c.op = "new"
  THEN GifWriter(<< >>, c.args.width, c.args.height,
                 [palette |-> c.args.palette, loop |-> c.args.loop,
                  background |-> c.args.background])
  ELSE IF c.op = "addFrame"
  THEN GifAddFrame(GifStateOf(c.before), c.args.x, c.args.y, c.args.width,
                   c.args.height, c.args.pixels, FrameOptions(c.args))
  ELSE GifEnd(GifStateOf(c.before))

\* C30: after every constructor, addFrame and end call made with the same
\* arguments in corresponding states, the GifWriter and the Writer hold the
\* same bytes and the same cursor, which is the value returned, threw the same
\* error or none, and are in corresponding states again.
WritersEquivalent ==
  (call # Idle /\ writer # Idle) => GifAfter(call) = GifStateOf(writer)

\* C31: every call of the decoder, on a well-formed or malformed code stream
\* and with any output_length, returns after finitely many steps: its chase
\* loop always reaches a literal code, the call never comes to a chase that
\* does not end (status "looping", in which it stays for ever).
DecoderTerminates == dec # Idle => dec.status # "looping"

\* C32: an addFrame that throws leaves the cursor position and the ended flag
\* as they were before the call, also when the call is made after end().
FailedAddFrameKeepsState ==
  (Called("addFrame") /\ writer.error # "none") =>
    /\ writer.position = call.before.position
    /\ writer.ended = call.before.ended

\* the output offset op is the first byte of a pixel of the canvas that lies in
\* the rectangle of the frame blitted
InFrameRect(b, op) ==
  LET col == (op \div 4) % b.width
      row == (op \div 4) \div b.width
  IN  /\ op >= 0 /\ op + 4 <= Len(b.pixels)
      /\ col >= b.frame.x /\ col < b.frame.x + b.frame.width
      /\ row >= b.frame.y /\ row < b.frame.y + b.frame.height

\* C33: a blit of a frame whose rectangle lies within the canvas stores only
\* to pixels inside the rectangle: no store is made at an offset outside it or
\* beyond the end of the canvas, and every byte outside it keeps its value.
BlitWithinRect ==
  blit # Idle =>
    /\ \A op \in blit.touched : InFrameRect(blit, op)
    /\ \A j \in 1..Len(blit.pixels) :
         ~InFrameRect(blit, 4 * ((j - 1) \div 4)) => blit.pixels[j] = 9

\* C34: on a stream the encoder wrote, the decoder reads every code, the End
\* Of Information code included, at the bit width at which the encoder wrote
\* it.
WidthLockStep ==
  (dec # Idle /\ enc # Idle) =>
    \A j \in 1..Len(dec.widths) :
      /\ j <= Len(enc.widths)
      /\ dec.widths[j] = enc.widths[j]

\* the decoder called, as decodeAndBlitFrame calls it, on the code stream of
\* the frame the last addFrame wrote, with output_length width * height
DecodedLastFrame ==
  LET num_pixels == call.args.width * call.args.height
  IN  readerLZWOutputIndexStream(Slice(writer.buffer, writer.position), writer.data_at,
                                 Zeros(num_pixels), num_pixels)

\* C35: the code stream a successful addFrame(x, y, w, h, indices) wrote for
\* indices of its palette decodes, with output_length w * h, to the first
\* w * h elements of indices, without a warning, also when indices holds more
\* elements.
FrameHoldsFramePixels ==
  (/\ Called("addFrame") /\ writer.error = "none"
   /\ \A j \in 1..Len(call.args.pixels) :
        call.args.pixels[j] < Len(EffectivePalette(call.args))) =>
    /\ DecodedLastFrame.ret = "output"
    /\ DecodedLastFrame.warning = "none"
    /\ DecodedLastFrame.output
         = SubSeq(call.args.pixels, 1, call.args.width * call.args.height)

\* the blit loop run to its end or to its throw
RECURSIVE BlitRun(_)
BlitRun(b) == IF BlitRunning(b) THEN BlitRun(BlitStep(b)) ELSE b

\* the other function of the pair, called on the same reader, frame and pixels
OtherOrderBlit ==
  BlitRun(BlitInit(reader, frameInfo(reader, 0), dec.output,
                   Canvas(reader.width, reader.height),
                   IF blit.order = "BGRA" THEN "RGBA" ELSE "BGRA"))

\* pixels with bytes 0 and 2 of every pixel at an offset of written exchanged
SwapChannels(pixels, written) ==
  [j \in 1..Len(pixels) |->
     IF (j - 1) % 4 = 0 /\ (j - 1) \in written THEN pixels[j + 2]
     ELSE IF (j - 1) % 4 = 2 /\ (j - 3) \in written THEN pixels[j - 2]
     ELSE pixels[j]]

\* C36: when decodeAndBlitFrameBGRA or decodeAndBlitFrameRGBA has returned or
\* thrown, the other one, called on the same reader, frame and pixel buffer,
\* throws if and only if this one did, and if neither did its pixels are this
\* one's with bytes 0 and 2 of every written pixel exchanged; also for a frame
\* that has no palette.
BlitOrdersAgree ==
  (blit # Idle /\ ~BlitRunning(blit)) =>
    /\ (blit.error = "none") = (OtherOrderBlit.error = "none")
    /\ blit.error = "none" =>
         OtherOrderBlit.pixels = SwapChannels(blit.pixels, blit.touched)

\* C37: whatever addFrame, end, setOutputBuffer and setOutputBufferPosition
\* calls were made, an ended writer has the trailer 0x3B at position - 1 of
\* its buffer, and so has every position that end() returns.
TrailerInvariant ==
  /\ (Usable /\ writer.ended) =>
       RdByte(writer.buffer, writer.position - 1) = 59
  /\ (Usable /\ Called("end")) =>
       RdByte(writer.buffer, call.ret - 1) = 59

=============================================================================
